---- MODULE Spec2Model ----
(***************************************************************************)
(* A model of the branch server of the distributed bank                    *)
(* (src/branch_server.py, src/protocol.py).                                *)
(*                                                                         *)
(* Every branch is a process with a sqlite store (tables accounts and      *)
(* pending_tx, autocommit), ONE connection and ONE cursor shared by all    *)
(* worker threads, and a mutex.  A request is served by a fresh worker     *)
(* thread.  A step of the model is one operation of a worker on the shared *)
(* cursor or store (execute, fetchone, fetchall), one lock acquisition, or *)
(* one network event.  Balances and amounts are integers (whole currency   *)
(* units); NaN, an unparsable amount and the SQL NULL are sentinels.       *)
(***************************************************************************)
EXTENDS Integers, Sequences, FiniteSets, TLC

VARIABLES
  accounts,   \* accounts[b]: the accounts table, account_no -> balance
  pending,    \* pending[b]: the pending_tx table, a set of rows
  cur,        \* cur[b]: rows the shared cursor self.cur still holds
  lock,       \* lock[b]: the worker holding self.lock, 0 when free
  phase,      \* phase[b]: "down", "init", "recovering", "ready", "listening"
  recRows,    \* recRows[b]: rows recover_pending fetched and has yet to delete
  cfg,        \* cfg[b]: the branch's startup parameters (preload, replicas)
  th,         \* th[t]: the worker threads
  calls,      \* calls[c]: every request sent, by a client or by a branch
  ntx,        \* the number of txids minted so far
  faults     \* the number of faults so far

vars == <<accounts, pending, cur, lock, phase, recRows, cfg, th, calls, ntx, faults>>

(***************************************************************************)
(* Bounds of the model.                                                    *)
(***************************************************************************)
MaxThreads == 3      \* worker threads alive at once, over all branches
MaxFaults == 1      \* faults of branches in one behaviour

(***************************************************************************)
(* Values.                                                                 *)
(***************************************************************************)
Branch == {"A", "B", "R"}
PreloadBalance == 1000
REPL_RETRY == 2
NaN == -777777       \* float("nan")
BadAmt == -888888    \* an amount float() rejects
Null == -999999      \* SQL NULL, what sqlite stores for a NaN

NoRow == [k |-> "none", acc |-> "", bal |-> 0]
NoParams == [acc |-> "", acc2 |-> "", amt |-> 0, txid |-> "", dest |-> "", ract |-> ""]

Ok(r) == [status |-> "ok", error |-> "", result |-> r]
Err(e) == [status |-> "error", error |-> e, result |-> 0]
NoResp == [status |-> "", error |-> "", result |-> 0]

\* Python floats are IEEE-754 doubles.  Every number below Two60 stands for
\* itself (it is below 2^31, an exact double, and so is a sum or difference
\* of two of them).  Two60 + k stands for the number 2^60 + k: the doubles of
\* [2^60, 2^61) are 2^60 + 256 * n, and a result that falls between two of
\* them is rounded to the nearest, ties to the even n.
Two60 == 1073741824
Ulp60 == 256
Round(v) ==
  IF v < Two60 THEN v
  ELSE LET k == v - Two60
           q == k \div Ulp60
           r == k % Ulp60
       IN Two60 + Ulp60 * (IF 2 * r < Ulp60 THEN q
                           ELSE IF 2 * r > Ulp60 THEN q + 1
                           ELSE IF q % 2 = 0 THEN q ELSE q + 1)

\* a subtraction with its operands exchanged
FSubSwapped(x, y) == IF x = NaN \/ y = NaN THEN NaN ELSE Round(y - x)

\* float arithmetic: NaN is absorbing and compares false
FAdd(x, y) == IF x = NaN \/ y = NaN THEN NaN ELSE Round(x + y)
FSub(x, y) == IF x = NaN \/ y = NaN THEN NaN ELSE Round(x - y)
\* a comparison that also holds of equal amounts
FLessEq(x, y) == x # NaN /\ y # NaN /\ x <= y
FLess(x, y) == x # NaN /\ y # NaN /\ x < y
ToDb(v) == IF v = NaN THEN Null ELSE v

FreeThread ==
  [st |-> "free", br |-> "", cid |-> 0, fn |-> "", pc |-> "", p |-> NoParams,
   co |-> "", cp |-> NoParams, ga |-> "", ret |-> "", acct |-> NoRow,
   src |-> NoRow, res |-> NoResp, call |-> 0, rq |-> <<>>, ri |-> 0, rk |-> 0,
   out |-> NoResp]

Tid == 1..MaxThreads
Running(t) == th[t].st = "run"
At(t, fn, pc) == Running(t) /\ th[t].fn = fn /\ th[t].pc = pc

(***************************************************************************)
(* The store: what the SQL statements of the handlers compute.             *)
(***************************************************************************)
AcctOrder == <<"1001", "1002", "2001">>
AcctNo == {AcctOrder[i] : i \in DOMAIN AcctOrder}

AcctRow(b, a) == [k |-> "acct", acc |-> a, bal |-> accounts[b][a]]

\* SELECT account_no, name, balance FROM accounts WHERE account_no=?
SelectAccount(b, a) ==
  IF a \in DOMAIN accounts[b] THEN <<AcctRow(b, a)>> ELSE <<>>

\* SELECT account_no, name, balance FROM accounts
RECURSIVE SelectFrom(_, _)
SelectFrom(b, i) ==
  IF i > Len(AcctOrder) THEN <<>>
  ELSE IF AcctOrder[i] \in DOMAIN accounts[b]
       THEN <<AcctRow(b, AcctOrder[i])>> \o SelectFrom(b, i + 1)
       ELSE SelectFrom(b, i + 1)
SelectAllAccounts(b) == SelectFrom(b, 1)

RECURSIVE SeqOf(_)
SeqOf(S) == IF S = {} THEN <<>>
            ELSE LET x == CHOOSE y \in S : TRUE IN <<x>> \o SeqOf(S \ {x})

PtxRow(r) == [k |-> "ptx", acc |-> r.acc, bal |-> r.amt]

\* SELECT account_no, amount FROM pending_tx WHERE txid=? AND type=?
SelectPending(b, txid, type) ==
  SeqOf({PtxRow(r) : r \in {x \in pending[b] : x.txid = txid /\ x.type = type}})

\* INSERT OR REPLACE INTO pending_tx: txid is the primary key
\* a plain INSERT into a table without the primary key
InsertRow(rows, r) == rows \cup {r}

InsertOrReplace(rows, r) == {x \in rows : x.txid # r.txid} \cup {r}

\* DELETE FROM pending_tx WHERE txid=?
DeleteTx(rows, txid) == {x \in rows : x.txid # txid}

\* a DELETE that matches no row
DeleteNothing(rows, txid, type) == rows

\* DELETE FROM pending_tx WHERE txid=? AND type=?
DeleteTyped(rows, txid, type) == {x \in rows : ~(x.txid = txid /\ x.type = type)}

\* UPDATE accounts SET balance=? WHERE account_no=?
update_balance(b, a, v) ==
  IF a \in DOMAIN accounts[b]
  THEN [accounts EXCEPT ![b] = [@ EXCEPT ![a] = ToDb(v)]]
  ELSE accounts

\* INSERT INTO accounts (the caller has checked that a is no key of the table)
InsertAccount(b, a, v) ==
  [accounts EXCEPT ![b] = [x \in DOMAIN @ \cup {a} |-> IF x = a THEN ToDb(v) ELSE @[x]]]

\* the balance the table holds for a (kept for the properties)
Stored(b, a) == IF a \in DOMAIN accounts[b] THEN accounts[b][a] ELSE Null

\* the shared cursor after a statement of worker t: the rows it holds
Cursor(rows, t) == [rows |-> rows, by |-> t]
Executed(b, rows, t) == [cur EXCEPT ![b] = Cursor(rows, t)]

(***************************************************************************)
(* Workers.                                                                *)
(***************************************************************************)
Holds(t) == lock[th[t].br] = t
Unlocked(t) == [lock EXCEPT ![th[t].br] = IF @ = t THEN 0 ELSE @]
Locked(t) == [lock EXCEPT ![th[t].br] = t]
Replicas(t) == cfg[th[t].br].replicas

\* what the handlers have written while serving call c (kept for the properties)
Logged(cs, c, e) == [cs EXCEPT ![c].wr = Append(@, e)]
Replied(cs, c, r) == [cs EXCEPT ![c].st = "replied", ![c].resp = r]
Wrote(kind, a, old, new, txid) ==
  [kind |-> kind, acc |-> a, old |-> old, new |-> new, txid |-> txid]

\* the worker's handler returns r: to the caller of the request, or to
\* handle_inter_branch_transfer when it called the handler in-process
Return(t, r, cs) ==
  IF th[t].co = ""
  THEN /\ th' = [th EXCEPT ![t] = FreeThread]
       /\ calls' = Replied(cs, th[t].cid, r)
  ELSE /\ th' = [th EXCEPT ![t] = [FreeThread EXCEPT
                   !.st = "run", !.br = th[t].br, !.cid = th[t].cid,
                   !.fn = "inter_branch_transfer", !.pc = th[t].co,
                   !.p = th[t].cp, !.res = r]]
       /\ calls' = cs

\* an exception leaves every handler of the worker (none catches it) and
\* _client_thread answers with its text; a lock held in a with block is released
Raise(t, cs) ==
  /\ th' = [th EXCEPT ![t] = FreeThread]
  /\ calls' = Replied(cs, th[t].cid, Err("exception"))
  /\ lock' = Unlocked(t)

\* the worker goes on in the same handler
Goto(t, pc) == th' = [th EXCEPT ![t].pc = pc]

\* the handler calls self.get_account(a) and goes on at ret
CallGetAccount(t, a, ret) ==
  th' = [th EXCEPT ![t] = [@ EXCEPT !.pc = "ga_exec", !.ga = a, !.ret = ret]]

\* the handler has left its with block after a write and now replicates msgs,
\* then returns r
Replicate(t, msgs, r, cs) ==
  IF Replicas(t) = <<>> \/ msgs = <<>>
  THEN Return(t, r, cs)
  ELSE /\ th' = [th EXCEPT ![t] = [@ EXCEPT !.pc = "repl", !.rq = msgs,
                                             !.ri = 1, !.rk = 0, !.out = r]]
       /\ calls' = cs

ReplMsg(ract, a, amt) == [NoParams EXCEPT !.ract = ract, !.acc = a, !.amt = amt]

(***************************************************************************)
(* _client_thread: a listening branch accepts a connection and starts a    *)
(* worker for the request.                                                 *)
(***************************************************************************)
FreeSlots == {t \in Tid : th[t].st = "free"}

\* the requests to branch b that are over: answered, or dead with their process (kept
\* for the properties, as are the balance and the tables the worker finds when it
\* starts: bal0 and pre)
Finished(b) ==
  {d \in DOMAIN calls : calls[d].to = b /\ calls[d].st \in {"replied", "died", "lost"}}

\* the pending_tx rows of txid at branch b, and the balances of their accounts
Found(b, txid) ==
  LET rows == {r \in pending[b] : r.txid = txid}
  IN [rows |-> rows,
      bal |-> [a \in {r.acc : r \in rows} \cap DOMAIN accounts[b] |-> accounts[b][a]]]

Accept(c) ==
  /\ calls[c].st = "sent"
  /\ calls[c].to \in Branch
  /\ phase[calls[c].to] = "listening"
  /\ FreeSlots # {}
  /\ LET t == CHOOSE x \in FreeSlots : \A y \in FreeSlots : x <= y IN
       th' = [th EXCEPT ![t] = [FreeThread EXCEPT
                !.st = "run", !.br = calls[c].to, !.cid = c,
                !.fn = calls[c].act, !.pc = "start", !.p = calls[c].p]]
  /\ calls' = [calls EXCEPT ![c].st = "taken",
                            ![c].after = Finished(calls[c].to),
                            ![c].bal0 = Stored(calls[c].to, calls[c].p.acc),
                            ![c].pre = Found(calls[c].to, calls[c].p.txid)]
  /\ UNCHANGED <<accounts, pending, cur, lock, phase, recRows, cfg, ntx, faults>>

(***************************************************************************)
(* get_account: execute on the shared cursor, then fetchone from it.       *)
(***************************************************************************)
GetAccountExec(t) ==
  /\ Running(t) /\ th[t].pc = "ga_exec"
  /\ cur' = Executed(th[t].br, SelectAccount(th[t].br, th[t].ga), t)
  /\ Goto(t, "ga_fetch")
  /\ UNCHANGED <<accounts, pending, lock, phase, recRows, cfg, calls, ntx, faults>>

\* fetchone: the next row of whatever statement the cursor ran last
FetchOne(b) == IF cur[b].rows = <<>> THEN NoRow ELSE Head(cur[b].rows)
Fetched(b) == [cur EXCEPT ![b].rows = IF @ = <<>> THEN <<>> ELSE Tail(@)]

GetAccountFetch(t) ==
  /\ Running(t) /\ th[t].pc = "ga_fetch"
  /\ LET b == th[t].br
         r == FetchOne(b)
     IN /\ cur' = Fetched(b)
        /\ IF r.k = "ptx" \/ (r.k = "acct" /\ r.bal = Null)
           THEN \* r[2] of a two-column row, or float(None)
                Raise(t, calls)
           ELSE /\ th' = [th EXCEPT ![t] = [@ EXCEPT
                            !.pc = th[t].ret, !.acct = r]]
                /\ UNCHANGED <<calls, lock>>
  /\ UNCHANGED <<accounts, pending, phase, recRows, cfg, ntx, faults>>

(***************************************************************************)
(* Two workers inside the sqlite3 module on the one cursor at the same     *)
(* time: the later one gets a ProgrammingError (or the process dies, which *)
(* is Crash).                                                              *)
(***************************************************************************)
DbPc == {"ga_exec", "ga_fetch", "ca", "la", "dep", "wd", "pw", "cw_fetch", "cw",
         "cw_del", "aw", "pd", "cd_fetch", "cd", "cd_del", "ad", "lt1", "lt2",
         "lt3", "rp"}
InDb(t) == Running(t) /\ (th[t].pc \in DbPc \/ (th[t].fn = "list_accounts" /\ th[t].pc = "start"))

RaceError(t) ==
  /\ InDb(t)
  /\ \E u \in Tid : u # t /\ InDb(u) /\ th[u].br = th[t].br
  /\ Raise(t, calls)
  /\ UNCHANGED <<accounts, pending, cur, phase, recRows, cfg, ntx, faults>>

(***************************************************************************)
(* handle_create_account                                                   *)
(***************************************************************************)
HandleCreateAccount(t) ==
  /\ At(t, "create_account", "start")
  /\ IF th[t].p.amt = BadAmt
     THEN Raise(t, calls)      \* float(balance) is outside any try
     ELSE IF th[t].p.acc = ""
     THEN Return(t, Err("missing account_no"), calls) /\ UNCHANGED lock
     ELSE \* with threading.Lock(): a new lock each time, it excludes nobody
          CallGetAccount(t, th[t].p.acc, "ca") /\ UNCHANGED <<calls, lock>>
  /\ UNCHANGED <<accounts, pending, cur, phase, recRows, cfg, ntx, faults>>

CreateAccountInsert(t) ==
  /\ At(t, "create_account", "ca")
  /\ LET b == th[t].br
         a == th[t].p.acc
         v == th[t].p.amt
     IN IF th[t].acct # NoRow
        THEN /\ Return(t, Err("account exists"), calls)
             /\ UNCHANGED <<accounts, cur, lock>>
        ELSE IF a \in DOMAIN accounts[b]
        THEN \* INSERT of an existing primary key: IntegrityError
             Raise(t, calls) /\ UNCHANGED <<accounts, cur>>
        ELSE /\ accounts' = InsertAccount(b, a, v)
             /\ cur' = Executed(b, <<>>, t)
             /\ Replicate(t, <<ReplMsg("create_account", a, v)>>, Ok(0),
                          Logged(calls, th[t].cid, Wrote("ins", a, 0, ToDb(v), "")))
             /\ UNCHANGED lock
  /\ UNCHANGED <<pending, phase, recRows, cfg, ntx, faults>>

(***************************************************************************)
(* handle_list_accounts, handle_balance: no lock                           *)
(***************************************************************************)
HandleListAccounts(t) ==
  /\ At(t, "list_accounts", "start")
  /\ cur' = Executed(th[t].br, SelectAllAccounts(th[t].br), t)
  /\ Goto(t, "la")
  /\ UNCHANGED <<accounts, pending, lock, phase, recRows, cfg, calls, ntx, faults>>

ListAccountsFetch(t) ==
  /\ At(t, "list_accounts", "la")
  /\ LET b == th[t].br
         rows == cur[b].rows
     IN /\ cur' = [cur EXCEPT ![b].rows = <<>>]
        /\ IF \E i \in DOMAIN rows : rows[i].k = "ptx" \/ rows[i].bal = Null
           THEN Raise(t, calls)   \* unpacking two columns into three, float(None)
           ELSE Return(t, Ok(Len(rows)), calls) /\ UNCHANGED lock
  /\ UNCHANGED <<accounts, pending, phase, recRows, cfg, ntx, faults>>

HandleBalance(t) ==
  /\ At(t, "balance", "start")
  /\ IF th[t].p.acc = ""
     THEN Return(t, Err("missing account_no"), calls)
     ELSE CallGetAccount(t, th[t].p.acc, "bal") /\ UNCHANGED calls
  /\ UNCHANGED <<accounts, pending, cur, lock, phase, recRows, cfg, ntx, faults>>

BalanceReply(t) ==
  /\ At(t, "balance", "bal")
  /\ IF th[t].acct = NoRow
     THEN Return(t, Err("account not found"), calls)
     ELSE Return(t, Ok(th[t].acct.bal), calls)
  /\ UNCHANGED <<accounts, pending, cur, lock, phase, recRows, cfg, ntx, faults>>

(***************************************************************************)
(* handle_deposit, handle_withdraw: the immediate operations               *)
(***************************************************************************)
HandleDeposit(t) ==
  /\ At(t, "deposit", "start")
  /\ IF th[t].p.amt = BadAmt
     THEN Return(t, Err("invalid amount"), calls) /\ UNCHANGED lock
     ELSE IF th[t].p.acc = ""
     THEN Return(t, Err("missing account_no"), calls) /\ UNCHANGED lock
     ELSE /\ lock[th[t].br] = 0
          /\ lock' = Locked(t)
          /\ CallGetAccount(t, th[t].p.acc, "dep")
          /\ UNCHANGED calls
  /\ UNCHANGED <<accounts, pending, cur, phase, recRows, cfg, ntx, faults>>

DepositApply(t) ==
  /\ At(t, "deposit", "dep")
  /\ LET b == th[t].br
         a == th[t].p.acc
         amt == th[t].p.amt
         new_bal == FAdd(th[t].acct.bal, amt)
     IN IF th[t].acct = NoRow
        THEN /\ Return(t, Err("account not found"), calls)
             /\ UNCHANGED <<accounts, cur>>
        ELSE /\ accounts' = update_balance(b, a, new_bal)
             /\ cur' = Executed(b, <<>>, t)
             /\ Replicate(t, <<ReplMsg("deposit", a, amt)>>, Ok(new_bal),
                          Logged(calls, th[t].cid,
                                 Wrote("bal", a, Stored(th[t].br, a), new_bal, "")))
  /\ lock' = Unlocked(t)
  /\ UNCHANGED <<pending, phase, recRows, cfg, ntx, faults>>

HandleWithdraw(t) ==
  /\ At(t, "withdraw", "start")
  /\ IF th[t].p.amt = BadAmt
     THEN Return(t, Err("invalid amount"), calls) /\ UNCHANGED lock
     ELSE IF th[t].p.acc = ""
     THEN Return(t, Err("missing account_no"), calls) /\ UNCHANGED lock
     ELSE /\ lock[th[t].br] = 0
          /\ lock' = Locked(t)
          /\ CallGetAccount(t, th[t].p.acc, "wd")
          /\ UNCHANGED calls
  /\ UNCHANGED <<accounts, pending, cur, phase, recRows, cfg, ntx, faults>>

\* handle_withdraw that updates the balance before it compares it
WithdrawDebitThenCheck(t) ==
  /\ At(t, "withdraw", "wd")
  /\ LET b == th[t].br
         a == th[t].p.acc
         amt == th[t].p.amt
         new_bal == FSub(th[t].acct.bal, amt)
     IN IF th[t].acct = NoRow
        THEN /\ Return(t, Err("account not found"), calls)
             /\ UNCHANGED <<accounts, cur>>
        ELSE /\ accounts' = update_balance(b, a, new_bal)
             /\ cur' = Executed(b, <<>>, t)
             /\ IF FLess(th[t].acct.bal, amt)
                THEN Return(t, Err("insufficient funds"),
                            Logged(calls, th[t].cid,
                                   Wrote("bal", a, Stored(th[t].br, a), new_bal, "")))
                ELSE Replicate(t, <<ReplMsg("withdraw", a, amt)>>, Ok(new_bal),
                               Logged(calls, th[t].cid,
                                      Wrote("bal", a, Stored(th[t].br, a), new_bal, "")))
  /\ lock' = Unlocked(t)
  /\ UNCHANGED <<pending, phase, recRows, cfg, ntx, faults>>

WithdrawApply(t) ==
  /\ At(t, "withdraw", "wd")
  /\ LET b == th[t].br
         a == th[t].p.acc
         amt == th[t].p.amt
         new_bal == FSub(th[t].acct.bal, amt)
     IN IF th[t].acct = NoRow
        THEN /\ Return(t, Err("account not found"), calls)
             /\ UNCHANGED <<accounts, cur>>
        ELSE IF FLess(th[t].acct.bal, amt)
        THEN /\ Return(t, Err("insufficient funds"), calls)
             /\ UNCHANGED <<accounts, cur>>
        ELSE /\ accounts' = update_balance(b, a, new_bal)
             /\ cur' = Executed(b, <<>>, t)
             /\ Replicate(t, <<ReplMsg("withdraw", a, amt)>>, Ok(new_bal),
                          Logged(calls, th[t].cid,
                                 Wrote("bal", a, Stored(th[t].br, a), new_bal, "")))
  /\ lock' = Unlocked(t)
  /\ UNCHANGED <<pending, phase, recRows, cfg, ntx, faults>>

(***************************************************************************)
(* The 2PC participant: withdraw side                                      *)
(***************************************************************************)
HandlePrepareWithdraw(t) ==
  /\ At(t, "prepare_withdraw", "start")
  /\ IF th[t].p.amt = BadAmt
     THEN Return(t, Err("invalid amount"), calls) /\ UNCHANGED lock
     ELSE IF th[t].p.txid = "" \/ th[t].p.acc = ""
     THEN Return(t, Err("missing txid/account_no"), calls) /\ UNCHANGED lock
     ELSE /\ lock[th[t].br] = 0
          /\ lock' = Locked(t)
          /\ CallGetAccount(t, th[t].p.acc, "pw")
          /\ UNCHANGED calls
  /\ UNCHANGED <<accounts, pending, cur, phase, recRows, cfg, ntx, faults>>

\* a prepare that takes the amount out of the account when it votes yes
PrepareWithdrawReserve(t) ==
  /\ At(t, "prepare_withdraw", "pw")
  /\ LET b == th[t].br
         p == th[t].p
         row == [txid |-> p.txid, acc |-> p.acc, amt |-> ToDb(p.amt), type |-> "withdraw"]
     IN IF th[t].acct = NoRow \/ FLess(th[t].acct.bal, p.amt)
        THEN /\ Return(t, Err("insufficient funds or account not found"), calls)
             /\ UNCHANGED <<accounts, pending, cur>>
        ELSE /\ pending' = [pending EXCEPT ![b] = InsertOrReplace(@, row)]
             /\ accounts' = update_balance(b, p.acc, FSub(th[t].acct.bal, p.amt))
             /\ cur' = Executed(b, <<>>, t)
             /\ Return(t, Ok(0), Logged(calls, th[t].cid,
                                        Wrote("prepare", p.acc, 0, 0, p.txid)))
  /\ lock' = Unlocked(t)
  /\ UNCHANGED <<phase, recRows, cfg, ntx, faults>>

\* a prepare that leaves its critical section open when it has voted yes
PrepareWithdrawInsertLocked(t) ==
  /\ At(t, "prepare_withdraw", "pw")
  /\ LET b == th[t].br
         p == th[t].p
         row == [txid |-> p.txid, acc |-> p.acc, amt |-> ToDb(p.amt), type |-> "withdraw"]
     IN IF th[t].acct = NoRow \/ FLess(th[t].acct.bal, p.amt)
        THEN /\ Return(t, Err("insufficient funds or account not found"), calls)
             /\ lock' = Unlocked(t)
             /\ UNCHANGED <<pending, cur>>
        ELSE /\ pending' = [pending EXCEPT ![b] = InsertOrReplace(@, row)]
             /\ cur' = Executed(b, <<>>, t)
             /\ Return(t, Ok(0), Logged(calls, th[t].cid,
                                        Wrote("prepare", p.acc, 0, 0, p.txid)))
             /\ UNCHANGED lock
  /\ UNCHANGED <<accounts, phase, recRows, cfg, ntx, faults>>

PrepareWithdrawInsert(t) ==
  /\ At(t, "prepare_withdraw", "pw")
  /\ LET b == th[t].br
         p == th[t].p
         row == [txid |-> p.txid, acc |-> p.acc, amt |-> ToDb(p.amt), type |-> "withdraw"]
     IN IF th[t].acct = NoRow \/ FLess(th[t].acct.bal, p.amt)
        THEN /\ Return(t, Err("insufficient funds or account not found"), calls)
             /\ UNCHANGED <<pending, cur>>
        ELSE /\ pending' = [pending EXCEPT ![b] = InsertOrReplace(@, row)]
             /\ cur' = Executed(b, <<>>, t)
             /\ Return(t, Ok(0), Logged(calls, th[t].cid,
                                        Wrote("prepare", p.acc, 0, 0, p.txid)))
  /\ lock' = Unlocked(t)
  /\ UNCHANGED <<accounts, phase, recRows, cfg, ntx, faults>>

HandleCommitWithdraw(t) ==
  /\ At(t, "commit_withdraw", "start")
  /\ IF th[t].p.txid = ""
     THEN /\ Return(t, Err("missing txid"), calls)
          /\ UNCHANGED <<lock, cur>>
     ELSE /\ lock[th[t].br] = 0
          /\ lock' = Locked(t)
          /\ cur' = Executed(th[t].br, SelectPending(th[t].br, th[t].p.txid, "withdraw"), t)
          /\ Goto(t, "cw_fetch")
          /\ UNCHANGED calls
  /\ UNCHANGED <<accounts, pending, phase, recRows, cfg, ntx, faults>>

CommitWithdrawFetch(t) ==
  /\ At(t, "commit_withdraw", "cw_fetch")
  /\ LET b == th[t].br
         r == FetchOne(b)
     IN /\ cur' = Fetched(b)
        /\ IF r = NoRow
           THEN Return(t, Err("no such tx"), calls) /\ lock' = Unlocked(t)
           ELSE IF r.k = "acct"
           THEN Raise(t, calls)     \* acc, amt = row: three values to unpack
           ELSE /\ th' = [th EXCEPT ![t] = [@ EXCEPT
                            !.pc = "ga_exec", !.ga = r.acc, !.ret = "cw", !.src = r]]
                /\ UNCHANGED <<calls, lock>>
  /\ UNCHANGED <<accounts, pending, phase, recRows, cfg, ntx, faults>>

\* a commit that trusts the yes vote and does not look at the balance again
CommitWithdrawNoRecheck(t) ==
  /\ At(t, "commit_withdraw", "cw")
  /\ LET b == th[t].br
         acc == th[t].src.acc
         amt == th[t].src.bal
         txid == th[t].p.txid
         new_bal == FSub(th[t].acct.bal, amt)
     IN IF th[t].acct = NoRow
        THEN /\ pending' = [pending EXCEPT ![b] = DeleteTx(@, txid)]
             /\ cur' = Executed(b, <<>>, t)
             /\ Return(t, Err("account not found"),
                       Logged(calls, th[t].cid, Wrote("delete", acc, 0, 0, txid)))
             /\ lock' = Unlocked(t)
             /\ UNCHANGED accounts
        ELSE IF amt = Null
        THEN \* balance < None: TypeError
             Raise(t, calls) /\ UNCHANGED <<accounts, pending, cur>>
        ELSE /\ accounts' = update_balance(b, acc, new_bal)
             /\ cur' = Executed(b, <<>>, t)
             /\ Goto(t, "cw_del")
             /\ calls' = Logged(calls, th[t].cid,
                                Wrote("bal", acc, Stored(th[t].br, acc), new_bal, txid))
             /\ UNCHANGED <<pending, lock>>
  /\ UNCHANGED <<phase, recRows, cfg, ntx, faults>>

\* a commit that leaves the row of a transaction it cannot pay
CommitWithdrawKeepRow(t) ==
  /\ At(t, "commit_withdraw", "cw")
  /\ LET b == th[t].br
         acc == th[t].src.acc
         amt == th[t].src.bal
         txid == th[t].p.txid
         new_bal == FSub(th[t].acct.bal, amt)
     IN IF th[t].acct = NoRow
        THEN /\ pending' = [pending EXCEPT ![b] = DeleteTx(@, txid)]
             /\ cur' = Executed(b, <<>>, t)
             /\ Return(t, Err("account not found"),
                       Logged(calls, th[t].cid, Wrote("delete", acc, 0, 0, txid)))
             /\ lock' = Unlocked(t)
             /\ UNCHANGED accounts
        ELSE IF amt = Null
        THEN \* balance < None: TypeError
             Raise(t, calls) /\ UNCHANGED <<accounts, pending, cur>>
        ELSE IF FLess(th[t].acct.bal, amt)
        THEN /\ Return(t, Err("insufficient funds at commit"), calls)
             /\ lock' = Unlocked(t)
             /\ UNCHANGED <<accounts, pending, cur>>
        ELSE /\ accounts' = update_balance(b, acc, new_bal)
             /\ cur' = Executed(b, <<>>, t)
             /\ Goto(t, "cw_del")
             /\ calls' = Logged(calls, th[t].cid,
                                Wrote("bal", acc, Stored(th[t].br, acc), new_bal, txid))
             /\ UNCHANGED <<pending, lock>>
  /\ UNCHANGED <<phase, recRows, cfg, ntx, faults>>

CommitWithdrawApply(t) ==
  /\ At(t, "commit_withdraw", "cw")
  /\ LET b == th[t].br
         acc == th[t].src.acc
         amt == th[t].src.bal
         txid == th[t].p.txid
         new_bal == FSub(th[t].acct.bal, amt)
     IN IF th[t].acct = NoRow
        THEN /\ pending' = [pending EXCEPT ![b] = DeleteTx(@, txid)]
             /\ cur' = Executed(b, <<>>, t)
             /\ Return(t, Err("account not found"),
                       Logged(calls, th[t].cid, Wrote("delete", acc, 0, 0, txid)))
             /\ lock' = Unlocked(t)
             /\ UNCHANGED accounts
        ELSE IF amt = Null
        THEN \* balance < None: TypeError
             Raise(t, calls) /\ UNCHANGED <<accounts, pending, cur>>
        ELSE IF FLess(th[t].acct.bal, amt)
        THEN /\ pending' = [pending EXCEPT ![b] = DeleteTx(@, txid)]
             /\ cur' = Executed(b, <<>>, t)
             /\ Return(t, Err("insufficient funds at commit"),
                       Logged(calls, th[t].cid, Wrote("delete", acc, 0, 0, txid)))
             /\ lock' = Unlocked(t)
             /\ UNCHANGED accounts
        ELSE /\ accounts' = update_balance(b, acc, new_bal)
             /\ cur' = Executed(b, <<>>, t)
             /\ Goto(t, "cw_del")
             /\ calls' = Logged(calls, th[t].cid,
                                Wrote("bal", acc, Stored(th[t].br, acc), new_bal, txid))
             /\ UNCHANGED <<pending, lock>>
  /\ UNCHANGED <<phase, recRows, cfg, ntx, faults>>

\* a commit that replicates before it leaves the critical section
CommitWithdrawDeleteLocked(t) ==
  /\ At(t, "commit_withdraw", "cw_del")
  /\ LET b == th[t].br
         txid == th[t].p.txid
     IN /\ pending' = [pending EXCEPT ![b] = DeleteTx(@, txid)]
        /\ cur' = Executed(b, <<>>, t)
        /\ Replicate(t, <<ReplMsg("withdraw", th[t].src.acc, th[t].src.bal)>>, Ok(0),
                     Logged(calls, th[t].cid, Wrote("delete", th[t].src.acc, 0, 0, txid)))
  /\ UNCHANGED <<accounts, lock, phase, recRows, cfg, ntx, faults>>

CommitWithdrawDelete(t) ==
  /\ At(t, "commit_withdraw", "cw_del")
  /\ LET b == th[t].br
         txid == th[t].p.txid
     IN /\ pending' = [pending EXCEPT ![b] = DeleteTx(@, txid)]
        /\ cur' = Executed(b, <<>>, t)
        /\ Replicate(t, <<ReplMsg("withdraw", th[t].src.acc, th[t].src.bal)>>, Ok(0),
                     Logged(calls, th[t].cid, Wrote("delete", th[t].src.acc, 0, 0, txid)))
  /\ lock' = Unlocked(t)
  /\ UNCHANGED <<accounts, phase, recRows, cfg, ntx, faults>>

HandleAbortWithdraw(t) ==
  /\ At(t, "abort_withdraw", "start")
  /\ IF th[t].p.txid = ""
     THEN Return(t, Err("missing txid"), calls) /\ UNCHANGED lock
     ELSE /\ lock[th[t].br] = 0
          /\ lock' = Locked(t)
          /\ Goto(t, "aw")
          /\ UNCHANGED calls
  /\ UNCHANGED <<accounts, pending, cur, phase, recRows, cfg, ntx, faults>>

\* an abort whose DELETE does not look at the type of the row
AbortWithdrawUntyped(t) ==
  /\ At(t, "abort_withdraw", "aw")
  /\ LET b == th[t].br
         txid == th[t].p.txid
     IN /\ pending' = [pending EXCEPT ![b] = DeleteTx(@, txid)]
        /\ cur' = Executed(b, <<>>, t)
        /\ Return(t, Ok(0),
                  IF pending'[b] = pending[b] THEN calls
                  ELSE Logged(calls, th[t].cid, Wrote("delete", "", 0, 0, txid)))
  /\ lock' = Unlocked(t)
  /\ UNCHANGED <<accounts, phase, recRows, cfg, ntx, faults>>

\* an abort that answers as commit_withdraw does when it finds no row
AbortWithdrawStrict(t) ==
  /\ At(t, "abort_withdraw", "aw")
  /\ LET b == th[t].br
         txid == th[t].p.txid
     IN /\ pending' = [pending EXCEPT ![b] = DeleteTyped(@, txid, "withdraw")]
        /\ cur' = Executed(b, <<>>, t)
        /\ IF pending'[b] = pending[b]
           THEN Return(t, Err("no such tx"), calls)
           ELSE Return(t, Ok(0), Logged(calls, th[t].cid, Wrote("delete", "", 0, 0, txid)))
  /\ lock' = Unlocked(t)
  /\ UNCHANGED <<accounts, phase, recRows, cfg, ntx, faults>>

AbortWithdrawDelete(t) ==
  /\ At(t, "abort_withdraw", "aw")
  /\ LET b == th[t].br
         txid == th[t].p.txid
     IN /\ pending' = [pending EXCEPT ![b] = DeleteTyped(@, txid, "withdraw")]
        /\ cur' = Executed(b, <<>>, t)
        /\ Return(t, Ok(0),
                  IF pending'[b] = pending[b] THEN calls
                  ELSE Logged(calls, th[t].cid, Wrote("delete", "", 0, 0, txid)))
  /\ lock' = Unlocked(t)
  /\ UNCHANGED <<accounts, phase, recRows, cfg, ntx, faults>>

(***************************************************************************)
(* The 2PC participant: deposit side                                       *)
(***************************************************************************)
HandlePrepareDeposit(t) ==
  /\ At(t, "prepare_deposit", "start")
  /\ IF th[t].p.amt = BadAmt
     THEN Return(t, Err("invalid amount"), calls) /\ UNCHANGED lock
     ELSE IF th[t].p.txid = "" \/ th[t].p.acc = ""
     THEN Return(t, Err("missing txid/account_no"), calls) /\ UNCHANGED lock
     ELSE /\ lock[th[t].br] = 0
          /\ lock' = Locked(t)
          /\ CallGetAccount(t, th[t].p.acc, "pd")
          /\ UNCHANGED calls
  /\ UNCHANGED <<accounts, pending, cur, phase, recRows, cfg, ntx, faults>>

PrepareDepositInsert(t) ==
  /\ At(t, "prepare_deposit", "pd")
  /\ LET b == th[t].br
         p == th[t].p
         row == [txid |-> p.txid, acc |-> p.acc, amt |-> ToDb(p.amt), type |-> "deposit"]
     IN IF th[t].acct = NoRow
        THEN /\ Return(t, Err("destination account not found"), calls)
             /\ UNCHANGED <<pending, cur>>
        ELSE /\ pending' = [pending EXCEPT ![b] = InsertOrReplace(@, row)]
             /\ cur' = Executed(b, <<>>, t)
             /\ Return(t, Ok(0), Logged(calls, th[t].cid,
                                        Wrote("prepare", p.acc, 0, 0, p.txid)))
  /\ lock' = Unlocked(t)
  /\ UNCHANGED <<accounts, phase, recRows, cfg, ntx, faults>>

HandleCommitDeposit(t) ==
  /\ At(t, "commit_deposit", "start")
  /\ IF th[t].p.txid = ""
     THEN /\ Return(t, Err("missing txid"), calls)
          /\ UNCHANGED <<lock, cur>>
     ELSE /\ lock[th[t].br] = 0
          /\ lock' = Locked(t)
          /\ cur' = Executed(th[t].br, SelectPending(th[t].br, th[t].p.txid, "deposit"), t)
          /\ Goto(t, "cd_fetch")
          /\ UNCHANGED calls
  /\ UNCHANGED <<accounts, pending, phase, recRows, cfg, ntx, faults>>

CommitDepositFetch(t) ==
  /\ At(t, "commit_deposit", "cd_fetch")
  /\ LET b == th[t].br
         r == FetchOne(b)
     IN /\ cur' = Fetched(b)
        /\ IF r = NoRow
           THEN Return(t, Err("no such tx"), calls) /\ lock' = Unlocked(t)
           ELSE IF r.k = "acct"
           THEN Raise(t, calls)     \* acc, amt = row: three values to unpack
           ELSE /\ th' = [th EXCEPT ![t] = [@ EXCEPT
                            !.pc = "ga_exec", !.ga = r.acc, !.ret = "cd", !.src = r]]
                /\ UNCHANGED <<calls, lock>>
  /\ UNCHANGED <<accounts, pending, phase, recRows, cfg, ntx, faults>>

CommitDepositApply(t) ==
  /\ At(t, "commit_deposit", "cd")
  /\ LET b == th[t].br
         acc == th[t].src.acc
         amt == th[t].src.bal
         txid == th[t].p.txid
         new_bal == FAdd(th[t].acct.bal, amt)
     IN IF th[t].acct = NoRow
        THEN /\ pending' = [pending EXCEPT ![b] = DeleteTx(@, txid)]
             /\ cur' = Executed(b, <<>>, t)
             /\ Return(t, Err("account not found"),
                       Logged(calls, th[t].cid, Wrote("delete", acc, 0, 0, txid)))
             /\ lock' = Unlocked(t)
             /\ UNCHANGED accounts
        ELSE IF amt = Null
        THEN \* balance + None: TypeError
             Raise(t, calls) /\ UNCHANGED <<accounts, pending, cur>>
        ELSE /\ accounts' = update_balance(b, acc, new_bal)
             /\ cur' = Executed(b, <<>>, t)
             /\ Goto(t, "cd_del")
             /\ calls' = Logged(calls, th[t].cid,
                                Wrote("bal", acc, Stored(th[t].br, acc), new_bal, txid))
             /\ UNCHANGED <<pending, lock>>
  /\ UNCHANGED <<phase, recRows, cfg, ntx, faults>>

CommitDepositDelete(t) ==
  /\ At(t, "commit_deposit", "cd_del")
  /\ LET b == th[t].br
         txid == th[t].p.txid
     IN /\ pending' = [pending EXCEPT ![b] = DeleteTx(@, txid)]
        /\ cur' = Executed(b, <<>>, t)
        /\ Replicate(t, <<ReplMsg("deposit", th[t].src.acc, th[t].src.bal)>>, Ok(0),
                     Logged(calls, th[t].cid, Wrote("delete", th[t].src.acc, 0, 0, txid)))
  /\ lock' = Unlocked(t)
  /\ UNCHANGED <<accounts, phase, recRows, cfg, ntx, faults>>

HandleAbortDeposit(t) ==
  /\ At(t, "abort_deposit", "start")
  /\ IF th[t].p.txid = ""
     THEN Return(t, Err("missing txid"), calls) /\ UNCHANGED lock
     ELSE /\ lock[th[t].br] = 0
          /\ lock' = Locked(t)
          /\ Goto(t, "ad")
          /\ UNCHANGED calls
  /\ UNCHANGED <<accounts, pending, cur, phase, recRows, cfg, ntx, faults>>

AbortDepositDelete(t) ==
  /\ At(t, "abort_deposit", "ad")
  /\ LET b == th[t].br
         txid == th[t].p.txid
     IN /\ pending' = [pending EXCEPT ![b] = DeleteTyped(@, txid, "deposit")]
        /\ cur' = Executed(b, <<>>, t)
        /\ Return(t, Ok(0),
                  IF pending'[b] = pending[b] THEN calls
                  ELSE Logged(calls, th[t].cid, Wrote("delete", "", 0, 0, txid)))
  /\ lock' = Unlocked(t)
  /\ UNCHANGED <<accounts, phase, recRows, cfg, ntx, faults>>

(***************************************************************************)
(* handle_local_transfer, local_transfer                                   *)
(***************************************************************************)
HandleLocalTransfer(t) ==
  /\ At(t, "local_transfer", "start")
  /\ IF th[t].p.amt = BadAmt
     THEN Return(t, Err("invalid amount"), calls) /\ UNCHANGED lock
     ELSE IF th[t].p.acc = "" \/ th[t].p.acc2 = ""
     THEN Return(t, Err("missing account numbers"), calls) /\ UNCHANGED lock
     ELSE /\ lock[th[t].br] = 0
          /\ lock' = Locked(t)
          /\ CallGetAccount(t, th[t].p.acc, "lt1")
          /\ UNCHANGED calls
  /\ UNCHANGED <<accounts, pending, cur, phase, recRows, cfg, ntx, faults>>

\* src = self.get_account(src_account) is read; dest = self.get_account(...)
LocalTransferSrc(t) ==
  /\ At(t, "local_transfer", "lt1")
  /\ th' = [th EXCEPT ![t] = [@ EXCEPT !.src = th[t].acct, !.pc = "ga_exec",
                                       !.ga = th[t].p.acc2, !.ret = "lt2"]]
  /\ UNCHANGED <<accounts, pending, cur, lock, phase, recRows, cfg, calls, ntx, faults>>

LocalTransferDebit(t) ==
  /\ At(t, "local_transfer", "lt2")
  /\ LET b == th[t].br
         src == th[t].src
         dest == th[t].acct
         amount == th[t].p.amt
         new_src_bal == FSub(src.bal, amount)
     IN IF src = NoRow
        THEN /\ Return(t, Err("source account not found"), calls)
             /\ lock' = Unlocked(t)
             /\ UNCHANGED <<accounts, cur>>
        ELSE IF dest = NoRow
        THEN /\ Return(t, Err("destination account not found"), calls)
             /\ lock' = Unlocked(t)
             /\ UNCHANGED <<accounts, cur>>
        ELSE IF FLess(src.bal, amount)
        THEN /\ Return(t, Err("insufficient funds"), calls)
             /\ lock' = Unlocked(t)
             /\ UNCHANGED <<accounts, cur>>
        ELSE /\ accounts' = update_balance(b, th[t].p.acc, new_src_bal)
             /\ cur' = Executed(b, <<>>, t)
             /\ Goto(t, "lt3")
             /\ calls' = Logged(calls, th[t].cid,
                                Wrote("bal", th[t].p.acc, Stored(th[t].br, th[t].p.acc), new_src_bal, ""))
             /\ UNCHANGED lock
  /\ UNCHANGED <<pending, phase, recRows, cfg, ntx, faults>>

LocalTransferCredit(t) ==
  /\ At(t, "local_transfer", "lt3")
  /\ LET b == th[t].br
         dest == th[t].acct
         amount == th[t].p.amt
         new_dest_bal == FAdd(dest.bal, amount)
     IN /\ accounts' = update_balance(b, th[t].p.acc2, new_dest_bal)
        /\ cur' = Executed(b, <<>>, t)
        /\ Replicate(t, <<ReplMsg("withdraw", th[t].p.acc, amount),
                          ReplMsg("deposit", th[t].p.acc2, amount)>>, Ok(0),
                     Logged(calls, th[t].cid,
                            Wrote("bal", th[t].p.acc2, Stored(th[t].br, th[t].p.acc2), new_dest_bal, "")))
  /\ lock' = Unlocked(t)
  /\ UNCHANGED <<pending, phase, recRows, cfg, ntx, faults>>

(***************************************************************************)
(* handle_replicate: a replica applies a write of its primary              *)
(***************************************************************************)
HandleReplicate(t) ==
  /\ At(t, "replicate", "start")
  /\ IF th[t].p.ract \notin {"create_account", "deposit", "withdraw"}
     THEN Return(t, Ok(0), calls) /\ UNCHANGED lock
     ELSE IF th[t].p.amt = BadAmt
     THEN Raise(t, calls)          \* float() is outside any try
     ELSE /\ lock[th[t].br] = 0
          /\ lock' = Locked(t)
          /\ CallGetAccount(t, th[t].p.acc, "rp")
          /\ UNCHANGED calls
  /\ UNCHANGED <<accounts, pending, cur, phase, recRows, cfg, ntx, faults>>

\* a replica that passes on to its own replicas the deposit or withdraw it
\* has applied
ReplicateApplyForward(t) ==
  /\ At(t, "replicate", "rp")
  /\ LET b == th[t].br
         p == th[t].p
         acct == th[t].acct
         new_bal == IF p.ract = "deposit" THEN FAdd(acct.bal, p.amt)
                    ELSE FSub(acct.bal, p.amt)
     IN IF p.ract = "create_account"
        THEN IF acct = NoRow /\ p.acc \notin DOMAIN accounts[b]
             THEN /\ accounts' = InsertAccount(b, p.acc, p.amt)
                  /\ cur' = Executed(b, <<>>, t)
                  /\ Return(t, Ok(0), Logged(calls, th[t].cid,
                                             Wrote("ins", p.acc, 0, ToDb(p.amt), "")))
             ELSE /\ cur' = IF acct = NoRow THEN Executed(b, <<>>, t) ELSE cur
                  /\ Return(t, Ok(0), calls)
                  /\ UNCHANGED accounts
        ELSE IF acct = NoRow
        THEN /\ Return(t, Ok(0), calls)
             /\ UNCHANGED <<accounts, cur>>
        ELSE /\ accounts' = update_balance(b, p.acc, new_bal)
             /\ cur' = Executed(b, <<>>, t)
             /\ Replicate(t, <<ReplMsg(p.ract, p.acc, p.amt)>>, Ok(0),
                          Logged(calls, th[t].cid,
                                 Wrote("bal", p.acc, Stored(th[t].br, p.acc), new_bal, "")))
  /\ lock' = Unlocked(t)
  /\ UNCHANGED <<pending, phase, recRows, cfg, ntx, faults>>

ReplicateApply(t) ==
  /\ At(t, "replicate", "rp")
  /\ LET b == th[t].br
         p == th[t].p
         acct == th[t].acct
         new_bal == IF p.ract = "deposit" THEN FAdd(acct.bal, p.amt)
                    ELSE FSub(acct.bal, p.amt)
     IN IF p.ract = "create_account"
        THEN IF acct = NoRow /\ p.acc \notin DOMAIN accounts[b]
             THEN /\ accounts' = InsertAccount(b, p.acc, p.amt)
                  /\ cur' = Executed(b, <<>>, t)
                  /\ Return(t, Ok(0), Logged(calls, th[t].cid,
                                             Wrote("ins", p.acc, 0, ToDb(p.amt), "")))
             ELSE \* the account exists, or INSERT OR IGNORE ignores the row
                  /\ cur' = IF acct = NoRow THEN Executed(b, <<>>, t) ELSE cur
                  /\ Return(t, Ok(0), calls)
                  /\ UNCHANGED accounts
        ELSE IF acct = NoRow
        THEN /\ Return(t, Ok(0), calls)
             /\ UNCHANGED <<accounts, cur>>
        ELSE /\ accounts' = update_balance(b, p.acc, new_bal)
             /\ cur' = Executed(b, <<>>, t)
             /\ Return(t, Ok(0), Logged(calls, th[t].cid,
                                        Wrote("bal", p.acc, Stored(th[t].br, p.acc), new_bal, "")))
  /\ lock' = Unlocked(t)
  /\ UNCHANGED <<pending, phase, recRows, cfg, ntx, faults>>

(***************************************************************************)
(* send_request: one connection, one request, one response or an error     *)
(***************************************************************************)
\* of: the request whose worker sends this one (kept for the properties)
NewCall(from, to, act, p) ==
  [from |-> from, to |-> to, act |-> act, p |-> p, st |-> "sent",
   resp |-> NoResp, wr |-> <<>>, of |-> 0, after |-> {}, bal0 |-> 0,
   pre |-> [bal |-> <<>>, rows |-> {}]]

\* the worker sends the request and waits for send_request to return
SendRequest(t, to, act, p, ret, cs) ==
  /\ calls' = Append(cs, [NewCall(t, to, act, p) EXCEPT !.of = th[t].cid])
  /\ th' = [th EXCEPT ![t] = [@ EXCEPT !.pc = "rpc", !.call = Len(cs) + 1, !.ret = ret]]

\* the response arrives within the timeout
RpcReturn(t) ==
  /\ Running(t) /\ th[t].pc = "rpc"
  /\ calls[th[t].call].st = "replied"
  /\ th' = [th EXCEPT ![t] = [@ EXCEPT !.pc = th[t].ret, !.call = 0,
                                       !.res = calls[th[t].call].resp]]
  /\ UNCHANGED <<accounts, pending, cur, lock, phase, recRows, cfg, calls, ntx, faults>>

\* the timeout passes before the response has come: send_request returns an
\* error, whatever becomes of the request
RpcFail(t) ==
  /\ Running(t) /\ th[t].pc = "rpc"
  /\ calls[th[t].call].st \in {"sent", "taken", "replied"}
  /\ faults < MaxFaults
  /\ faults' = faults + 1
  /\ th' = [th EXCEPT ![t] = [@ EXCEPT !.pc = th[t].ret, !.call = 0,
                                       !.res = Err("transport")]]
  /\ UNCHANGED <<accounts, pending, cur, lock, phase, recRows, cfg, calls, ntx>>

\* connection refused or closed without a response: the peer is not
\* listening, or its process has died
RpcLost(t) ==
  /\ Running(t) /\ th[t].pc = "rpc"
  /\ LET c == th[t].call IN
       /\ \/ calls[c].st \in {"lost", "died"}
          \/ calls[c].st = "sent" /\ phase[calls[c].to] # "listening"
       /\ calls' = [calls EXCEPT ![c].st = IF @ = "sent" THEN "lost" ELSE @]
  /\ th' = [th EXCEPT ![t] = [@ EXCEPT !.pc = th[t].ret, !.call = 0,
                                       !.res = Err("transport")]]
  /\ UNCHANGED <<accounts, pending, cur, lock, phase, recRows, cfg, ntx, faults>>

(***************************************************************************)
(* replicate_to_replicas: every replica in turn, REPL_RETRY attempts each  *)
(***************************************************************************)
ReplSend(t) ==
  /\ Running(t) /\ th[t].pc = "repl"
  /\ SendRequest(t, Replicas(t)[th[t].ri], "replicate", Head(th[t].rq), "repl_got", calls)
  /\ UNCHANGED <<accounts, pending, cur, lock, phase, recRows, cfg, ntx, faults>>

\* a replicate_to_replicas that makes one attempt per replica
ReplGotNoRetry(t) ==
  /\ Running(t) /\ th[t].pc = "repl_got"
  /\ IF th[t].ri < Len(Replicas(t))
     THEN /\ th' = [th EXCEPT ![t] = [@ EXCEPT !.pc = "repl", !.ri = @ + 1, !.rk = 0]]
          /\ UNCHANGED calls
     ELSE IF Len(th[t].rq) > 1
     THEN /\ th' = [th EXCEPT ![t] = [@ EXCEPT !.pc = "repl", !.rq = Tail(@),
                                                !.ri = 1, !.rk = 0]]
          /\ UNCHANGED calls
     ELSE Return(t, th[t].out, calls)
  /\ UNCHANGED <<accounts, pending, cur, lock, phase, recRows, cfg, ntx, faults>>

\* a replicate_to_replicas that reports the failure of the last attempt
ReplGotStrict(t) ==
  /\ Running(t) /\ th[t].pc = "repl_got"
  /\ IF th[t].res.status # "ok" /\ th[t].rk + 1 < REPL_RETRY
     THEN /\ th' = [th EXCEPT ![t] = [@ EXCEPT !.pc = "repl", !.rk = @ + 1]]
          /\ UNCHANGED calls
     ELSE IF th[t].ri < Len(Replicas(t))
     THEN /\ th' = [th EXCEPT ![t] = [@ EXCEPT !.pc = "repl", !.ri = @ + 1, !.rk = 0]]
          /\ UNCHANGED calls
     ELSE IF Len(th[t].rq) > 1
     THEN /\ th' = [th EXCEPT ![t] = [@ EXCEPT !.pc = "repl", !.rq = Tail(@),
                                                !.ri = 1, !.rk = 0]]
          /\ UNCHANGED calls
     ELSE IF th[t].res.status # "ok"
     THEN Return(t, Err("replication failed"), calls)
     ELSE Return(t, th[t].out, calls)
  /\ UNCHANGED <<accounts, pending, cur, lock, phase, recRows, cfg, ntx, faults>>

ReplGot(t) ==
  /\ Running(t) /\ th[t].pc = "repl_got"
  /\ IF th[t].res.status # "ok" /\ th[t].rk + 1 < REPL_RETRY
     THEN \* sleep, then the next attempt
          /\ th' = [th EXCEPT ![t] = [@ EXCEPT !.pc = "repl", !.rk = @ + 1]]
          /\ UNCHANGED calls
     ELSE IF th[t].ri < Len(Replicas(t))
     THEN /\ th' = [th EXCEPT ![t] = [@ EXCEPT !.pc = "repl", !.ri = @ + 1, !.rk = 0]]
          /\ UNCHANGED calls
     ELSE IF Len(th[t].rq) > 1
     THEN /\ th' = [th EXCEPT ![t] = [@ EXCEPT !.pc = "repl", !.rq = Tail(@),
                                                !.ri = 1, !.rk = 0]]
          /\ UNCHANGED calls
     ELSE Return(t, th[t].out, calls)
  /\ UNCHANGED <<accounts, pending, cur, lock, phase, recRows, cfg, ntx, faults>>

(***************************************************************************)
(* handle_inter_branch_transfer: the 2PC coordinator                       *)
(***************************************************************************)
\* txid = f"{self.name}-{int(time.time()*1000)}-{random.randint(1000,9999)}":
\* the n-th txid minted in the system, taken to be unique
MintedTxid == [A |-> <<"A-1", "A-2", "A-3">>, B |-> <<"B-1", "B-2", "B-3">>,
               R |-> <<"R-1", "R-2", "R-3">>]

\* the coordinator calls a handler of its own branch in-process
CallLocal(t, fn, p, cp, co) ==
  th' = [th EXCEPT ![t] = [@ EXCEPT !.fn = fn, !.pc = "start", !.p = p,
                                    !.cp = cp, !.co = co]]

HandleInterBranchTransfer(t) ==
  /\ At(t, "inter_branch_transfer", "start")
  /\ LET p == th[t].p
         txid == MintedTxid[th[t].br][ntx + 1]
     IN IF p.dest = ""
        THEN Raise(t, calls) /\ UNCHANGED ntx     \* int(None)
        ELSE IF p.amt = BadAmt
        THEN Return(t, Err("invalid amount"), calls) /\ UNCHANGED <<lock, ntx>>
        ELSE IF p.acc = "" \/ p.acc2 = ""
        THEN Return(t, Err("missing parameters"), calls) /\ UNCHANGED <<lock, ntx>>
        ELSE /\ ntx' = ntx + 1
             /\ CallLocal(t, "prepare_withdraw",
                          [NoParams EXCEPT !.txid = txid, !.acc = p.acc, !.amt = p.amt],
                          [p EXCEPT !.txid = txid], "ibt_prep")
             /\ calls' = [calls EXCEPT ![th[t].cid].p.txid = txid]
             /\ UNCHANGED lock
  /\ UNCHANGED <<accounts, pending, cur, phase, recRows, cfg, faults>>

\* 1) local prepare_withdraw has returned; 2) ask dest to prepare the deposit
IbtPrepared(t) ==
  /\ At(t, "inter_branch_transfer", "ibt_prep")
  /\ LET p == th[t].p
     IN IF th[t].res.status # "ok"
        THEN Return(t, Err("local prepare failed"), calls)
        ELSE SendRequest(t, p.dest, "prepare_deposit",
                         [NoParams EXCEPT !.txid = p.txid, !.acc = p.acc2, !.amt = p.amt],
                         "ibt_rprep", calls)
  /\ UNCHANGED <<accounts, pending, cur, lock, phase, recRows, cfg, ntx, faults>>

\* a coordinator that commits locally whatever the destination has voted
IbtVotedIgnored(t) ==
  /\ At(t, "inter_branch_transfer", "ibt_rprep")
  /\ LET p == th[t].p
     IN CallLocal(t, "commit_withdraw", [NoParams EXCEPT !.txid = p.txid], p, "ibt_commit")
  /\ UNCHANGED <<accounts, pending, cur, lock, phase, recRows, cfg, calls, ntx, faults>>

\* the destination has voted (or the call failed): abort local, or 3) commit local
IbtVoted(t) ==
  /\ At(t, "inter_branch_transfer", "ibt_rprep")
  /\ LET p == th[t].p
     IN IF th[t].res.status # "ok"
        THEN CallLocal(t, "abort_withdraw", [NoParams EXCEPT !.txid = p.txid], p, "ibt_abort")
        ELSE CallLocal(t, "commit_withdraw", [NoParams EXCEPT !.txid = p.txid], p, "ibt_commit")
  /\ UNCHANGED <<accounts, pending, cur, lock, phase, recRows, cfg, calls, ntx, faults>>

IbtAborted(t) ==
  /\ At(t, "inter_branch_transfer", "ibt_abort")
  /\ Return(t, Err("destination prepare failed"), calls)
  /\ UNCHANGED <<accounts, pending, cur, lock, phase, recRows, cfg, ntx, faults>>

\* a coordinator that gives up after a failed local commit without a word to
\* the destination
IbtCommittedNoAbort(t) ==
  /\ At(t, "inter_branch_transfer", "ibt_commit")
  /\ LET p == th[t].p
     IN IF th[t].res.status # "ok"
        THEN Return(t, Err("local commit failed"), calls)
        ELSE SendRequest(t, p.dest, "commit_deposit", [NoParams EXCEPT !.txid = p.txid],
                         "ibt_rcommit", calls)
  /\ UNCHANGED <<accounts, pending, cur, lock, phase, recRows, cfg, ntx, faults>>

\* local commit_withdraw has returned: abort remote, or 4) commit remote
IbtCommitted(t) ==
  /\ At(t, "inter_branch_transfer", "ibt_commit")
  /\ LET p == th[t].p
     IN IF th[t].res.status # "ok"
        THEN SendRequest(t, p.dest, "abort_deposit", [NoParams EXCEPT !.txid = p.txid],
                         "ibt_rabort", calls)
        ELSE SendRequest(t, p.dest, "commit_deposit", [NoParams EXCEPT !.txid = p.txid],
                         "ibt_rcommit", calls)
  /\ UNCHANGED <<accounts, pending, cur, lock, phase, recRows, cfg, ntx, faults>>

IbtRemoteAborted(t) ==
  /\ At(t, "inter_branch_transfer", "ibt_rabort")
  /\ Return(t, Err("local commit failed"), calls)
  /\ UNCHANGED <<accounts, pending, cur, lock, phase, recRows, cfg, ntx, faults>>

IbtRemoteCommitted(t) ==
  /\ At(t, "inter_branch_transfer", "ibt_rcommit")
  /\ IF th[t].res.status # "ok"
     THEN Return(t, Err("remote commit failed"), calls)
     ELSE Return(t, Ok(0), calls)
  /\ UNCHANGED <<accounts, pending, cur, lock, phase, recRows, cfg, ntx, faults>>

(***************************************************************************)
(* The life of a branch process: crash, __init__ (open the store, preload, *)
(* recover_pending), start                                                 *)
(***************************************************************************)
NoCursor == Cursor(<<>>, 0)

\* the process dies: its workers, its lock and its cursor are gone, the
\* store stays (every statement was committed when it ran)
Crash(b) ==
  /\ cfg[b].deployed
  /\ phase[b] # "down"
  /\ faults < MaxFaults
  /\ faults' = faults + 1
  /\ phase' = [phase EXCEPT ![b] = "down"]
  /\ th' = [t \in Tid |-> IF th[t].br = b THEN FreeThread ELSE th[t]]
  /\ calls' = [c \in DOMAIN calls |->
                 IF \E t \in Tid : Running(t) /\ th[t].br = b /\ th[t].cid = c
                 THEN [calls[c] EXCEPT !.st = "died"]
                 ELSE IF calls[c].to = b /\ calls[c].st = "sent" /\ calls[c].from # 0
                 THEN \* a connection not yet accepted dies with the process
                      [calls[c] EXCEPT !.st = "lost"]
                 ELSE calls[c]]
  /\ lock' = [lock EXCEPT ![b] = 0]
  /\ cur' = [cur EXCEPT ![b] = NoCursor]
  /\ recRows' = [recRows EXCEPT ![b] = <<>>]
  /\ UNCHANGED <<accounts, pending, cfg, ntx>>

Preloaded == [a \in {"1001", "1002"} |-> PreloadBalance]

\* a start that writes the two sample accounts whatever the table holds
ResetAccounts(b) ==
  IF cfg[b].preload
  THEN [accounts EXCEPT ![b] = Preloaded]
  ELSE accounts

\* _preload_accounts: two sample accounts if the table is empty
_preload_accounts(b) ==
  IF cfg[b].preload /\ DOMAIN accounts[b] = {}
  THEN [accounts EXCEPT ![b] = Preloaded]
  ELSE accounts

\* __init__ up to recover_pending
Restart(b) ==
  /\ cfg[b].deployed
  /\ phase[b] = "down"
  /\ phase' = [phase EXCEPT ![b] = "init"]
  /\ accounts' = _preload_accounts(b)
  /\ UNCHANGED <<pending, cur, lock, recRows, cfg, th, calls, ntx, faults>>

\* recover_pending: SELECT ... FROM pending_tx, fetchall
RecoverScan(b) ==
  /\ phase[b] = "init"
  /\ recRows' = [recRows EXCEPT ![b] = SeqOf(pending[b])]
  /\ phase' = [phase EXCEPT ![b] = "recovering"]
  /\ UNCHANGED <<accounts, pending, cur, lock, cfg, th, calls, ntx, faults>>

\* recover_pending that only logs the rows it finds
RecoverLogOnly(b) ==
  /\ phase[b] = "recovering"
  /\ recRows[b] # <<>>
  /\ recRows' = [recRows EXCEPT ![b] = Tail(@)]
  /\ UNCHANGED <<accounts, pending, cur, lock, phase, cfg, th, calls, ntx, faults>>

\* recover_pending: DELETE FROM pending_tx WHERE txid=? for the next row
RecoverDelete(b) ==
  /\ phase[b] = "recovering"
  /\ recRows[b] # <<>>
  /\ pending' = [pending EXCEPT ![b] = DeleteTx(@, Head(recRows[b]).txid)]
  /\ recRows' = [recRows EXCEPT ![b] = Tail(@)]
  /\ UNCHANGED <<accounts, cur, lock, phase, cfg, th, calls, ntx, faults>>

\* recover_pending returns, __init__ returns
RecoverDone(b) ==
  /\ phase[b] = "recovering"
  /\ recRows[b] = <<>>
  /\ phase' = [phase EXCEPT ![b] = "ready"]
  /\ UNCHANGED <<accounts, pending, cur, lock, recRows, cfg, th, calls, ntx, faults>>

\* start: listen and accept
Listen(b) ==
  /\ phase[b] = "ready"
  /\ phase' = [phase EXCEPT ![b] = "listening"]
  /\ UNCHANGED <<accounts, pending, cur, lock, recRows, cfg, th, calls, ntx, faults>>

(***************************************************************************)
(* Deployments and workloads.  The clients' requests are the calls of the  *)
(* initial state; a listening branch accepts them in any order, so they    *)
(* run one after the other or concurrently.                                *)
(***************************************************************************)
\* the branches in `up' are started with --preload; A replicates to `reps'
Config(up, reps) ==
  [b \in Branch |-> [deployed |-> b \in up, preload |-> TRUE,
                     replicas |-> IF b = "A" THEN reps ELSE <<>>]]

Req(to, act, p) == NewCall(0, to, act, p)
P1(a) == [NoParams EXCEPT !.acc = a]
P2(a, amt) == [NoParams EXCEPT !.acc = a, !.amt = amt]
PT(txid) == [NoParams EXCEPT !.txid = txid]
PP(txid, a, amt) == [NoParams EXCEPT !.txid = txid, !.acc = a, !.amt = amt]
PL(a, a2, amt) == [NoParams EXCEPT !.acc = a, !.acc2 = a2, !.amt = amt]
PI(a, dest, a2, amt) == [NoParams EXCEPT !.acc = a, !.acc2 = a2, !.amt = amt, !.dest = dest]

\* the state after the construction and start of every deployed branch
InitWith(c, w) ==
  /\ cfg = c
  /\ accounts = [b \in Branch |-> IF c[b].deployed /\ c[b].preload THEN Preloaded ELSE <<>>]
  /\ pending = [b \in Branch |-> {}]
  /\ cur = [b \in Branch |-> NoCursor]
  /\ lock = [b \in Branch |-> 0]
  /\ phase = [b \in Branch |-> IF c[b].deployed THEN "listening" ELSE "down"]
  /\ recRows = [b \in Branch |-> <<>>]
  /\ th = [t \in Tid |-> FreeThread]
  /\ calls = w
  /\ ntx = 0
  /\ faults = 0

Process(b) ==
  \/ Crash(b) \/ Restart(b) \/ RecoverScan(b) \/ RecoverDelete(b)
  \/ RecoverDone(b) \/ Listen(b)

Reader(t) ==
  \/ GetAccountExec(t) \/ GetAccountFetch(t) \/ RaceError(t)
  \/ HandleBalance(t) \/ BalanceReply(t)

Immediate(t) ==
  \/ HandleCreateAccount(t) \/ CreateAccountInsert(t)
  \/ HandleListAccounts(t) \/ ListAccountsFetch(t)
  \/ HandleDeposit(t) \/ DepositApply(t)
  \/ HandleWithdraw(t) \/ WithdrawApply(t)
  \/ HandleLocalTransfer(t) \/ LocalTransferSrc(t)
  \/ LocalTransferDebit(t) \/ LocalTransferCredit(t)

Participant(t) ==
  \/ HandlePrepareWithdraw(t) \/ PrepareWithdrawInsert(t)
  \/ HandleCommitWithdraw(t) \/ CommitWithdrawFetch(t)
  \/ CommitWithdrawApply(t) \/ CommitWithdrawDelete(t)
  \/ HandleAbortWithdraw(t) \/ AbortWithdrawDelete(t)
  \/ HandlePrepareDeposit(t) \/ PrepareDepositInsert(t)
  \/ HandleCommitDeposit(t) \/ CommitDepositFetch(t)
  \/ CommitDepositApply(t) \/ CommitDepositDelete(t)
  \/ HandleAbortDeposit(t) \/ AbortDepositDelete(t)

Coordinator(t) ==
  \/ RpcReturn(t) \/ RpcFail(t) \/ RpcLost(t)
  \/ HandleInterBranchTransfer(t) \/ IbtPrepared(t) \/ IbtVoted(t) \/ IbtAborted(t)
  \/ IbtCommitted(t) \/ IbtRemoteAborted(t) \/ IbtRemoteCommitted(t)

Replicator(t) ==
  \/ HandleReplicate(t) \/ ReplicateApply(t)
  \/ RpcReturn(t) \/ RpcFail(t) \/ RpcLost(t) \/ ReplSend(t) \/ ReplGot(t)

(***************************************************************************)
(* Spec: one branch, A, and its clients.  Every two requests of            *)
(* LocalRequests, and the workloads of LocalTriples, LocalQuads and        *)
(* LocalAborts.                                                            *)
(***************************************************************************)
LocalRequests ==
  << Req("A", "create_account", P2("2001", 500)),
     Req("A", "create_account", P2("", 0)),
     Req("A", "list_accounts", NoParams),
     Req("A", "balance", P1("1001")),
     Req("A", "balance", P1("2001")),
     Req("A", "deposit", P2("1001", 300)),
     Req("A", "deposit", P2("1001", BadAmt)),
     Req("A", "deposit", P2("1001", -300)),
     Req("A", "deposit", P2("1002", NaN)),
     Req("A", "withdraw", P2("1002", 1000)),
     Req("A", "withdraw", P2("1001", 1300)),
     Req("A", "local_transfer", PL("1001", "1002", 300)),
     Req("A", "local_transfer", PL("1001", "1001", 300)),
     Req("A", "local_transfer", PL("1001", "2001", 300)),
     Req("A", "prepare_withdraw", PP("t1", "1001", 1000)),
     Req("A", "prepare_withdraw", PP("t1", "1001", 1300)),
     Req("A", "commit_withdraw", PT("t1")),
     Req("A", "abort_withdraw", PT("t1")),
     Req("A", "prepare_deposit", PP("t1", "1002", 300)),
     Req("A", "commit_deposit", PT("t1")),
     Req("A", "abort_deposit", PT("t1")),
     Req("A", "commit_deposit", PT("")) >>

LocalTriples ==
  { << Req("A", "prepare_withdraw", PP("t1", "1001", 1000)),
       Req("A", "withdraw", P2("1001", 300)),
       Req("A", "commit_withdraw", PT("t1")) >> }

\* a local transfer out of the account between the vote and the commit
LocalDrains ==
  { << Req("A", "prepare_withdraw", PP("t1", "1001", 1000)),
       Req("A", "local_transfer", PL("1001", "1002", 300)),
       Req("A", "commit_withdraw", PT("t1")) >> }

\* two transactions that debit the same account, as two coordinators drive them
LocalQuads ==
  { << Req("A", "prepare_withdraw", PP("t1", "1001", 1000)),
       Req("A", "prepare_withdraw", PP("t2", "1001", 1000)),
       Req("A", "commit_withdraw", PT("t1")),
       Req("A", "commit_withdraw", PT("t2")) >> }

\* a transaction aborted twice, and two prepare/abort cycles of one txid
LocalAborts ==
  { << Req("A", "prepare_withdraw", PP("t1", "1001", 1000)),
       Req("A", "abort_withdraw", PT("t1")),
       Req("A", "abort_withdraw", PT("t1")) >>,
    << Req("A", "prepare_deposit", PP("t1", "1002", 300)),
       Req("A", "abort_deposit", PT("t1")),
       Req("A", "abort_deposit", PT("t1")) >>,
    << Req("A", "prepare_withdraw", PP("t1", "1001", 1000)),
       Req("A", "abort_withdraw", PT("t1")),
       Req("A", "prepare_withdraw", PP("t1", "1001", 1000)),
       Req("A", "abort_withdraw", PT("t1")) >> }

\* a deposit and the withdraw of the same amount: 300, 0 and 2^60
LocalRoundTrips ==
  { << Req("A", "deposit", P2("1001", x)), Req("A", "withdraw", P2("1001", x)) >> :
      x \in {300, 0, Two60} }

\* prepare_withdraw on an account that may not exist yet, and without a txid
LocalPrepares ==
  { << Req("A", "create_account", P2("2001", 500)),
       Req("A", "prepare_withdraw", PP("t1", "2001", 300)) >>,
    << Req("A", "prepare_withdraw", PP("", "1001", 300)) >> }

LocalWorkloads ==
  {<<LocalRequests[ij[1]], LocalRequests[ij[2]]>> :
      ij \in {x \in (DOMAIN LocalRequests) \X (DOMAIN LocalRequests) : x[1] <= x[2]}}
  \cup LocalTriples \cup LocalQuads \cup LocalAborts \cup LocalRoundTrips
  \cup LocalPrepares \cup LocalDrains

Init == \E w \in LocalWorkloads : InitWith(Config({"A"}, <<>>), w)

Next ==
  \/ \E c \in DOMAIN calls : Accept(c)
  \/ \E t \in Tid : Reader(t) \/ Immediate(t) \/ Participant(t)
  \/ \E b \in Branch : Process(b)

Spec == Init /\ [][Next]_vars

(***************************************************************************)
(* SpecRepl: branch A with its replica R.  Each request of ReplRequests    *)
(* alone, and the pairs of ReplPairs; every amount is a non-negative       *)
(* number.  No request prepares, so recover_pending finds no row.          *)
(***************************************************************************)
ReplRequests ==
  << Req("A", "create_account", P2("2001", 500)),
     Req("A", "list_accounts", NoParams),
     Req("A", "deposit", P2("1001", 300)),
     Req("A", "withdraw", P2("1001", 1000)),
     Req("A", "withdraw", P2("1001", 1300)),
     Req("A", "local_transfer", PL("1001", "1002", 300)),
     Req("R", "balance", P1("1001")) >>

ReplPairs == {<<1, 2>>, <<3, 5>>, <<4, 7>>}

\* the two commits that replicate, each after its prepare
ReplCommits ==
  { << Req("A", "prepare_withdraw", PP("t1", "1001", 1000)),
       Req("A", "commit_withdraw", PT("t1")) >>,
    << Req("A", "prepare_deposit", PP("t1", "1002", 300)),
       Req("A", "commit_deposit", PT("t1")) >> }

\* an account is created while a deposit to it is on its way
ReplCreates ==
  { << Req("A", "create_account", P2("2001", 500)),
       Req("A", "deposit", P2("2001", 300)) >> }

ReplWorkloads ==
  {<<ReplRequests[i]>> : i \in DOMAIN ReplRequests}
  \cup {<<ReplRequests[ij[1]], ReplRequests[ij[2]]>> : ij \in ReplPairs}
  \cup ReplCommits \cup ReplCreates

InitRepl == \E w \in ReplWorkloads : InitWith(Config({"A", "R"}, <<"R">>), w)

NextRepl ==
  \/ \E c \in DOMAIN calls : Accept(c)
  \/ \E t \in Tid : Reader(t) \/ Immediate(t) \/ Replicator(t)
  \/ \E t \in Tid :
       \/ HandlePrepareWithdraw(t) \/ PrepareWithdrawInsert(t)
       \/ HandleCommitWithdraw(t) \/ CommitWithdrawFetch(t)
       \/ CommitWithdrawApply(t) \/ CommitWithdrawDelete(t)
       \/ HandlePrepareDeposit(t) \/ PrepareDepositInsert(t)
       \/ HandleCommitDeposit(t) \/ CommitDepositFetch(t)
       \/ CommitDepositApply(t) \/ CommitDepositDelete(t)
  \/ \E b \in Branch : Process(b)

SpecRepl == InitRepl /\ [][NextRepl]_vars

(***************************************************************************)
(* SpecTransfer: branches A and B and the transfers between them.          *)
(***************************************************************************)
TransferWorkloads ==
  { << Req("A", "inter_branch_transfer", PI("1001", "B", "1001", 300)) >>,
    << Req("A", "inter_branch_transfer", PI("1001", "B", "1001", 1300)) >>,
    << Req("A", "inter_branch_transfer", PI("1001", "B", "2001", 300)) >>,
    << Req("A", "inter_branch_transfer", PI("1001", "A", "1002", 300)) >>,
    << Req("A", "inter_branch_transfer", PI("1001", "R", "1001", 300)) >>,
    << Req("A", "inter_branch_transfer", PI("1001", "", "1001", 300)) >>,
    << Req("A", "inter_branch_transfer", PI("1001", "B", "1001", 1000)),
       Req("A", "withdraw", P2("1001", 300)) >>,
    << Req("A", "inter_branch_transfer", PI("1001", "B", "1001", 300)),
       Req("A", "deposit", P2("1002", 500)),
       Req("A", "balance", P1("1002")) >> }

InitTransfer == \E w \in TransferWorkloads : InitWith(Config({"A", "B"}, <<>>), w)

NextTransfer ==
  \/ \E c \in DOMAIN calls : Accept(c)
  \/ \E t \in Tid :
       \/ Reader(t) \/ Participant(t) \/ Coordinator(t)
       \/ HandleDeposit(t) \/ DepositApply(t) \/ HandleWithdraw(t) \/ WithdrawApply(t)
  \/ \E b \in Branch : Process(b)

SpecTransfer == InitTransfer /\ [][NextTransfer]_vars

(***************************************************************************)
(* SpecNet: A with its replica R, and B: transfers and a deposit whose      *)
(* writes are replicated.                                                  *)
(***************************************************************************)
NetWorkloads ==
  { << Req("A", "inter_branch_transfer", PI("1001", "B", "1001", 300)) >>,
    << Req("A", "inter_branch_transfer", PI("1001", "B", "2001", 300)) >>,
    << Req("A", "inter_branch_transfer", PI("1001", "A", "1002", 300)) >>,
    << Req("A", "deposit", P2("1001", 300)) >> }

InitNet == \E w \in NetWorkloads : InitWith(Config({"A", "B", "R"}, <<"R">>), w)

NextNet ==
  \/ \E c \in DOMAIN calls : Accept(c)
  \/ \E t \in Tid :
       \/ GetAccountExec(t) \/ GetAccountFetch(t)
       \/ Participant(t) \/ Coordinator(t)
       \/ HandleReplicate(t) \/ ReplicateApply(t) \/ ReplSend(t) \/ ReplGot(t)
       \/ HandleDeposit(t) \/ DepositApply(t)
  \/ \E b \in Branch : Process(b)

SpecNet == InitNet /\ [][NextNet]_vars

(***************************************************************************)
(* SpecRepeat: branch A alone, serving a prepare and the commit of its     *)
(* txid sent twice.                                                        *)
(***************************************************************************)
\* a commit sent twice after its prepare, alone and beside a balance request
RepeatWorkloads ==
  { << Req("A", "prepare_withdraw", PP("t1", "1001", 300)),
       Req("A", "commit_withdraw", PT("t1")),
       Req("A", "commit_withdraw", PT("t1")) >>,
    << Req("A", "prepare_deposit", PP("t1", "1002", 300)),
       Req("A", "commit_deposit", PT("t1")),
       Req("A", "commit_deposit", PT("t1")) >>,
    << Req("A", "prepare_withdraw", PP("t1", "1001", 300)),
       Req("A", "commit_withdraw", PT("t1")),
       Req("A", "commit_withdraw", PT("t1")),
       Req("A", "balance", P1("1002")) >> }

InitRepeat == \E w \in RepeatWorkloads : InitWith(Config({"A"}, <<>>), w)

NextRepeat ==
  \/ \E c \in DOMAIN calls : Accept(c)
  \/ \E t \in Tid :
       \/ Reader(t)
       \/ HandlePrepareWithdraw(t) \/ PrepareWithdrawInsert(t)
       \/ HandleCommitWithdraw(t) \/ CommitWithdrawFetch(t)
       \/ CommitWithdrawApply(t) \/ CommitWithdrawDelete(t)
       \/ HandlePrepareDeposit(t) \/ PrepareDepositInsert(t)
       \/ HandleCommitDeposit(t) \/ CommitDepositFetch(t)
       \/ CommitDepositApply(t) \/ CommitDepositDelete(t)
  \/ \E b \in Branch : Process(b)

SpecRepeat == InitRepeat /\ [][NextRepeat]_vars

(***************************************************************************)
(* SpecLive: branches A and B coordinating transfers toward each other (A  *)
(* has no account 2001, so it votes no), a transfer of A to itself, to B   *)
(* beside a balance request, and to R, which is not running.  The scheduler runs every worker that can take a step   *)
(* and the listener accepts every connection it can; a response that has   *)
(* been sent arrives, and a connection to a dead or absent process is      *)
(* refused or closed.  A crash (the process stays down) and a timeout may   *)
(* happen or not.                                                          *)
(***************************************************************************)
LiveWorkloads ==
  { << Req("A", "inter_branch_transfer", PI("1001", "B", "1001", 300)),
       Req("B", "inter_branch_transfer", PI("1001", "A", "2001", 300)) >>,
    << Req("A", "inter_branch_transfer", PI("1001", "A", "1002", 300)) >>,
    << Req("A", "inter_branch_transfer", PI("1001", "B", "1001", 300)),
       Req("A", "balance", P1("1001")) >>,
    << Req("A", "inter_branch_transfer", PI("1001", "R", "1001", 300)) >> }

InitLive == \E w \in LiveWorkloads : InitWith(Config({"A", "B"}, <<>>), w)

\* the steps worker t takes when it is scheduled
Worker(t) ==
  \/ Reader(t) \/ Participant(t)
  \/ RpcReturn(t) \/ RpcLost(t)
  \/ HandleInterBranchTransfer(t) \/ IbtPrepared(t) \/ IbtVoted(t) \/ IbtAborted(t)
  \/ IbtCommitted(t) \/ IbtRemoteAborted(t) \/ IbtRemoteCommitted(t)

NextLive ==
  \/ \E c \in DOMAIN calls : Accept(c)
  \/ \E t \in Tid : Worker(t) \/ RpcFail(t)
  \/ \E b \in Branch : Crash(b)

Scheduling ==
  /\ WF_vars(\E c \in DOMAIN calls : Accept(c))
  /\ \A t \in Tid : WF_vars(Worker(t))

SpecLive == InitLive /\ [][NextLive]_vars /\ Scheduling

(***************************************************************************)
(* SpecMutual: A and R started with each other as the only replica; a      *)
(* deposit at A, a deposit at R, and both at once.                         *)
(***************************************************************************)
Mutual ==
  [b \in Branch |->
     [deployed |-> b \in {"A", "R"}, preload |-> TRUE,
      replicas |-> IF b = "A" THEN <<"R">> ELSE IF b = "R" THEN <<"A">> ELSE <<>>]]

MutualWorkloads ==
  { << Req("A", "deposit", P2("1001", 300)) >>,
    << Req("R", "deposit", P2("1002", 300)) >>,
    << Req("A", "deposit", P2("1001", 300)), Req("R", "deposit", P2("1001", 500)) >> }

InitMutual == \E w \in MutualWorkloads : InitWith(Mutual, w)

NextMutual ==
  \/ \E c \in DOMAIN calls : Accept(c)
  \/ \E t \in Tid :
       \/ GetAccountExec(t) \/ GetAccountFetch(t)
       \/ HandleDeposit(t) \/ DepositApply(t)
       \/ Replicator(t)
  \/ \E b \in Branch :
       \* no request prepares, so recover_pending finds no row to delete
       Crash(b) \/ Restart(b) \/ RecoverScan(b) \/ RecoverDone(b) \/ Listen(b)

SpecMutual == InitMutual /\ [][NextMutual]_vars

(***************************************************************************)
(* Properties of the transfers (SpecTransfer) and of replication           *)
(* (SpecRepl).                                                             *)
(***************************************************************************)
Replied_(c) == calls[c].st = "replied"
Succeeded(c) == Replied_(c) /\ calls[c].resp.status = "ok"
Failed(c, e) == Replied_(c) /\ calls[c].resp.status = "error" /\ calls[c].resp.error = e

\* the change of the balances that a log of writes records
RECURSIVE Net(_)
Net(wr) ==
  IF wr = <<>> THEN 0
  ELSE (IF Head(wr).kind = "bal" THEN Head(wr).new - Head(wr).old ELSE 0) + Net(Tail(wr))

BalWrites(wr) == SelectSeq(wr, LAMBDA w : w.kind = "bal")

\* the balance writes of the commit_deposit calls for txid, one after another
RECURSIVE Credits(_, _)
Credits(txid, c) ==
  IF c > Len(calls) THEN <<>>
  ELSE (IF calls[c].act = "commit_deposit" /\ calls[c].p.txid = txid
        THEN BalWrites(calls[c].wr) ELSE <<>>) \o Credits(txid, c + 1)

\* C1: when inter_branch_transfer has returned ok, commit_withdraw and
\* commit_deposit have each been applied exactly once for its txid: the
\* source account is debited by amount and the destination account is
\* credited by amount.
C1_OkTransferDebitsAndCredits ==
  \A c \in DOMAIN calls :
    calls[c].act = "inter_branch_transfer" /\ Succeeded(c) =>
      LET p == calls[c].p
          debits == BalWrites(calls[c].wr)
          credits == Credits(p.txid, 1)
      IN /\ Len(debits) = 1
         /\ debits[1].acc = p.acc /\ debits[1].new = debits[1].old - p.amt
         /\ Len(credits) = 1
         /\ credits[1].acc = p.acc2 /\ credits[1].new = credits[1].old + p.amt

\* the remote prepare_deposit of the transfer of call c is known to have failed
PrepareFailed(c) ==
  \E d \in DOMAIN calls :
    /\ calls[d].act = "prepare_deposit" /\ calls[d].p.txid = calls[c].p.txid
    /\ \/ calls[d].st \in {"lost", "died"}
       \/ calls[d].st = "replied" /\ calls[d].resp.status = "error"

\* C2: if the remote prepare_deposit fails, the coordinator runs its local
\* abort_withdraw and returns 'destination prepare failed'; after that the
\* source branch has no pending_tx row for the txid and the transfer has
\* changed no balance of the source branch.
C2_PrepareFailureAborts ==
  \A c \in DOMAIN calls :
    calls[c].act = "inter_branch_transfer" =>
      /\ Replied_(c) /\ PrepareFailed(c) => Failed(c, "destination prepare failed")
      /\ Failed(c, "destination prepare failed") =>
           /\ \A r \in pending[calls[c].to] : r.txid # calls[c].p.txid
           /\ BalWrites(calls[c].wr) = <<>>

\* C3: no account of any branch, primary or replica, ever has a negative
\* balance: every write path keeps balance >= 0.
C3_BalancesNeverNegative ==
  \A b \in Branch : \A a \in DOMAIN accounts[b] :
    accounts[b][a] # Null /\ accounts[b][a] >= 0

\* the requests the worker of call c has sent to do act
Sent(c, act) == {d \in DOMAIN calls : calls[d].of = c /\ calls[d].act = act}
Unanswered(d) ==
  \/ calls[d].st \in {"lost", "died"}
  \/ calls[d].st = "replied" /\ calls[d].resp.status = "error"

\* C11: if the remote commit_deposit fails after the local commit_withdraw
\* succeeded, the coordinator returns 'remote commit failed', has attempted
\* an abort_deposit on the destination, and the source stays debited.
C11_RemoteCommitFailureAbortsRemote ==
  \A c \in DOMAIN calls :
    calls[c].act = "inter_branch_transfer" =>
      /\ Replied_(c) /\ (\E d \in Sent(c, "commit_deposit") : Unanswered(d))
           => Failed(c, "remote commit failed")
      /\ Failed(c, "remote commit failed") =>
           /\ Sent(c, "abort_deposit") # {}
           /\ Len(BalWrites(calls[c].wr)) = 1

\* C12: when the local commit_withdraw returns an error after both prepares
\* voted yes, the next step of the coordinator sends abort_deposit to the
\* destination and the one after returns 'local commit failed'; a transfer
\* that has returned 'local commit failed' has sent that abort_deposit, has
\* not debited the source and no commit_deposit has credited its txid.
C12_LocalCommitFailureAbortsRemote ==
  /\ [](\A c \in DOMAIN calls :
          calls[c].act = "inter_branch_transfer" /\ Failed(c, "local commit failed") =>
            /\ \E d \in Sent(c, "abort_deposit") : calls[d].p.txid = calls[c].p.txid
            /\ Sent(c, "commit_deposit") = {}
            /\ BalWrites(calls[c].wr) = <<>>
            /\ Credits(calls[c].p.txid, 1) = <<>>)
  /\ [][\A t \in Tid :
          /\ Running(t) /\ th[t].fn = "inter_branch_transfer"
          /\ th'[t] # th[t] /\ phase'[th[t].br] = "listening"
          => /\ th[t].pc = "ibt_commit" /\ th[t].res.status # "ok" =>
                  /\ th'[t].pc = "rpc" /\ th'[t].ret = "ibt_rabort"
                  /\ calls'[Len(calls')].act = "abort_deposit"
                  /\ calls'[Len(calls')].to = th[t].p.dest
             /\ th[t].pc = "ibt_rabort" =>
                  calls'[th[t].cid].resp = Err("local commit failed")]_vars

\* C12 witness: a transfer has returned 'local commit failed' after the
\* destination had voted yes, and the destination has served its abort.
C12_Witness ==
  \E c \in DOMAIN calls :
    /\ calls[c].act = "inter_branch_transfer" /\ Failed(c, "local commit failed")
    /\ calls[c].p.dest # calls[c].to
    /\ \E d \in Sent(c, "prepare_deposit") : Succeeded(d)
    /\ \E d \in Sent(c, "abort_deposit") : Succeeded(d) /\ calls[d].wr # <<>>

\* what the writes of a log are, in their order
Kinds(wr) == [i \in DOMAIN wr |-> wr[i].kind]

\* C25: a transfer has sent at most one prepare_deposit and at most one
\* commit_deposit; it sends prepare_deposit when its local prepare_withdraw
\* has stored the row and nothing else is written, its worker enters the local
\* commit_withdraw when a prepare_deposit of the transfer has been answered
\* ok, and it sends commit_deposit when the local commit_withdraw has debited
\* the account and deleted the row.
C25_CoordinatorOrder ==
  /\ [](\A c \in DOMAIN calls :
          calls[c].act = "inter_branch_transfer" =>
            /\ Cardinality(Sent(c, "prepare_deposit")) <= 1
            /\ Cardinality(Sent(c, "commit_deposit")) <= 1
            /\ Sent(c, "commit_deposit") # {} =>
                 /\ Kinds(calls[c].wr) = <<"prepare", "bal", "delete">>
                 /\ \E d \in Sent(c, "prepare_deposit") : Succeeded(d))
  /\ [][/\ \A t \in Tid :
             /\ Running(t) /\ th[t].fn = "inter_branch_transfer"
             /\ th'[t].st = "run" /\ th'[t].cid = th[t].cid
             /\ th'[t].fn = "commit_withdraw"
             => /\ th[t].res.status = "ok"
                /\ \E d \in Sent(th[t].cid, "prepare_deposit") : Succeeded(d)
        /\ Len(calls') > Len(calls) =>
             LET n == calls'[Len(calls')]
             IN /\ n.act = "prepare_deposit" =>
                     /\ Sent(n.of, "prepare_deposit") = {}
                     /\ Kinds(calls[n.of].wr) = <<"prepare">>
                /\ n.act = "commit_deposit" =>
                     /\ Sent(n.of, "commit_deposit") = {}
                     /\ Kinds(calls[n.of].wr) = <<"prepare", "bal", "delete">>]_vars

\* C25 witness: a transfer has returned ok after one prepare_deposit and one
\* commit_deposit, both answered ok.
C25_Witness ==
  \E c \in DOMAIN calls :
    /\ calls[c].act = "inter_branch_transfer" /\ Succeeded(c)
    /\ \E d \in Sent(c, "prepare_deposit") : Succeeded(d)
    /\ \E d \in Sent(c, "commit_deposit") : Succeeded(d)

\* worker t is sending a request to another process or waiting for the answer
Outbound(t) == Running(t) /\ th[t].pc \in {"rpc", "repl", "repl_got"}

\* C26: a worker that sends a request or waits for its answer (a replicate
\* call, or the coordinator's prepare_deposit, commit_deposit or
\* abort_deposit) does not hold the mutex of its branch; a worker that enters
\* a handler, and so may acquire the mutex, does not hold it; and a replicate
\* call is sent when the write it carries is already in the store.
C26_NoLockAcrossNetwork ==
  /\ [](\A t \in Tid :
          /\ Outbound(t) => ~Holds(t)
          /\ Running(t) /\ th[t].pc = "start" => ~Holds(t))
  /\ [][Len(calls') > Len(calls) =>
          LET n == calls'[Len(calls')]
          IN /\ \A t \in Tid : th'[t].call = Len(calls') => ~Holds(t) /\ lock' = lock
             /\ n.act = "replicate" =>
                  \E i \in DOMAIN calls[n.of].wr :
                    /\ calls[n.of].wr[i].kind \in {"bal", "ins"}
                    /\ calls[n.of].wr[i].acc = n.p.acc]_vars

\* C26 witness: the worker of a transfer waits for the replica to answer the
\* replicate call of its local commit_withdraw, the debit is in the store and
\* the mutex is free.
C26_Witness ==
  \E t \in Tid :
    /\ Running(t) /\ th[t].pc = "rpc" /\ calls[th[t].call].act = "replicate"
    /\ calls[th[t].cid].act = "inter_branch_transfer"
    /\ BalWrites(calls[th[t].cid].wr) # <<>>
    /\ lock[th[t].br] = 0

\* request c is an inter_branch_transfer in one of the states sts
TransferIn(c, sts) ==
  IF c \in DOMAIN calls
  THEN calls[c].act = "inter_branch_transfer" /\ calls[c].st \in sts
  ELSE FALSE

\* C32: an inter_branch_transfer that a worker has started to serve is
\* eventually answered, unless the process of its coordinator dies; and a
\* worker that waits for the answer to a request it has sent holds no mutex.
C32_TransferReturns ==
  /\ [](\A t \in Tid : Running(t) /\ th[t].pc = "rpc" => ~Holds(t))
  /\ \A c \in 1..2 : TransferIn(c, {"taken"}) ~> TransferIn(c, {"replied", "died"})

\* C32 witness: A and B have each coordinated a transfer toward the other,
\* each was under way when its branch served the prepare_deposit of the
\* other, and both have returned: A's with ok, B's with the no vote of A.
C32_Witness ==
  /\ Len(calls) >= 2
  /\ calls[1].act = "inter_branch_transfer" /\ calls[2].act = "inter_branch_transfer"
  /\ calls[1].to = "A" /\ calls[2].to = "B"
  /\ Succeeded(1) /\ Failed(2, "destination prepare failed")
  /\ \E d \in Sent(1, "prepare_deposit") : Succeeded(d) /\ 2 \notin calls[d].after
  /\ \E d \in Sent(2, "prepare_deposit") :
       Failed(d, "destination account not found") /\ 1 \notin calls[d].after

\* C29: a commit_deposit has credited the txid of a transfer only if the
\* local commit_withdraw of the transfer has debited the source, and the
\* debit and the credits of a transfer together never add to the balances of
\* the two branches.
C29_TransfersCreateNoMoney ==
  \A c \in DOMAIN calls :
    calls[c].act = "inter_branch_transfer" =>
      LET credits == Credits(calls[c].p.txid, 1)
      IN /\ credits # <<>> => BalWrites(calls[c].wr) # <<>>
         /\ Net(calls[c].wr) + Net(credits) <= 0

\* C30: when an inter_branch_transfer has returned, with ok or with an
\* error, the destination branch holds no pending_tx row of its txid.
C30_NoRowLeftAtDestination ==
  \A c \in DOMAIN calls :
    /\ calls[c].act = "inter_branch_transfer" /\ Replied_(c)
    /\ calls[c].resp.status \in {"ok", "error"}
    /\ calls[c].p.dest \in Branch
    => \A r \in pending[calls[c].p.dest] : r.txid # calls[c].p.txid

\* C13: while no process dies and no request times out, a commit_withdraw
\* that comes after its prepare_withdraw returned ok returns an error only if
\* an immediate withdraw has debited the account.
C13_CommitFailsOnlyAfterImmediateWithdraw ==
  \A c \in DOMAIN calls :
    /\ faults = 0
    /\ calls[c].act = "commit_withdraw" /\ Replied_(c) /\ ~Succeeded(c)
    => \A d \in calls[c].after :
         /\ calls[d].act = "prepare_withdraw" /\ Succeeded(d)
         /\ calls[d].p.txid = calls[c].p.txid
         => \E w \in DOMAIN calls :
              /\ calls[w].act = "withdraw" /\ calls[w].to = calls[c].to
              /\ calls[w].p.acc = calls[d].p.acc
              /\ BalWrites(calls[w].wr) # <<>>

\* C14: an inter_branch_transfer whose destination is the coordinator's own
\* branch has, when it returns, changed the sum of the balances of the branch
\* by nothing and left no pending_tx row for its txid.
C14_SelfTransferConserves ==
  \A c \in DOMAIN calls :
    /\ calls[c].act = "inter_branch_transfer" /\ calls[c].p.dest = calls[c].to
    /\ Replied_(c)
    => /\ Net(calls[c].wr) + Net(Credits(calls[c].p.txid, 1)) = 0
       /\ \A r \in pending[calls[c].to] : r.txid # calls[c].p.txid

\* C17: a branch never holds two pending_tx rows with one txid; a step that
\* stores a row under a txid that had one leaves the new row as the only row
\* of the txid and the table no larger.
C17_OnePendingRowPerTxid ==
  /\ [](\A b \in Branch : \A r1, r2 \in pending[b] : r1.txid = r2.txid => r1 = r2)
  /\ [][\A b \in Branch : \A r \in pending'[b] \ pending[b] :
          (\E x \in pending[b] : x.txid = r.txid) =>
            /\ \A x \in pending'[b] : x.txid = r.txid => x = r
            /\ Cardinality(pending'[b]) <= Cardinality(pending[b])]_vars

\* C17 witness: prepare_withdraw and then prepare_deposit have both stored a
\* row under one txid, and the deposit row is the one the branch holds.
C17_Witness ==
  \E c, d \in DOMAIN calls :
    /\ calls[d].act = "prepare_withdraw" /\ Succeeded(d) /\ calls[d].wr # <<>>
    /\ calls[c].act = "prepare_deposit" /\ Succeeded(c) /\ calls[c].wr # <<>>
    /\ d \in calls[c].after /\ calls[c].p.txid = calls[d].p.txid
    /\ \E r \in pending[calls[c].to] : r.txid = calls[c].p.txid /\ r.type = "deposit"

\* the handlers that change an account and replicate the change
Replicating ==
  {"create_account", "deposit", "withdraw", "local_transfer", "commit_withdraw",
   "commit_deposit"}

\* the writes to the row of account a that a log records
RowWrites(wr, a) == SelectSeq(wr, LAMBDA w : w.kind \in {"bal", "ins"} /\ w.acc = a)

\* C19: a create_account, deposit, withdraw, local_transfer, commit_withdraw
\* or commit_deposit that has returned ok has written an account row; as long
\* as no other request writes that row it holds the value the handler wrote,
\* whether the branch is up, down, recovering or up again; and no step of a
\* branch that is down or starting, nor the crash itself, changes an account.
C19_OkChangesSurviveRestart ==
  /\ [](\A c \in DOMAIN calls :
          calls[c].act \in Replicating /\ Succeeded(c) =>
            /\ \E a \in AcctNo : RowWrites(calls[c].wr, a) # <<>>
            /\ \A a \in AcctNo :
                 LET ws == RowWrites(calls[c].wr, a) IN
                   /\ ws # <<>>
                   /\ a \in DOMAIN accounts[calls[c].to]
                   /\ \A d \in DOMAIN calls \ {c} :
                        calls[d].to = calls[c].to => RowWrites(calls[d].wr, a) = <<>>
                   => accounts[calls[c].to][a] = ToDb(ws[Len(ws)].new))
  /\ [][\A b \in Branch :
          phase[b] # "listening" \/ phase'[b] # "listening" =>
            accounts'[b] = accounts[b]]_vars

\* C19 witness: a deposit returned ok, the branch then died with a later
\* request in progress, has restarted and recovered and listens again, and
\* the account holds the balance the deposit reported.
C19_Witness ==
  \E c, d \in DOMAIN calls :
    /\ calls[c].act = "deposit" /\ Succeeded(c) /\ calls[c].p.amt = 300
    /\ calls[d].st = "died" /\ c \in calls[d].after /\ calls[d].to = calls[c].to
    /\ phase[calls[c].to] = "listening"
    /\ calls[c].resp.result = PreloadBalance + 300
    /\ accounts[calls[c].to][calls[c].p.acc] = calls[c].resp.result

\* call c was served with no other request of its branch in progress
Isolated(c) ==
  \A d \in DOMAIN calls \ {c} :
    calls[d].to = calls[c].to =>
      \/ d \in calls[c].after
      \/ c \in calls[d].after
      \/ calls[d].st \in {"sent", "lost"}

\* C20: a withdraw served on its own, of an amount equal to the balance the
\* account holds, returns ok with balance 0 and writes 0; of an amount greater
\* than the balance, it returns 'insufficient funds' and writes nothing.
C20_WithdrawAtTheBoundary ==
  \A c \in DOMAIN calls :
    /\ calls[c].act = "withdraw" /\ Replied_(c) /\ Isolated(c)
    /\ calls[c].bal0 # Null /\ calls[c].p.amt \notin {NaN, BadAmt}
    => /\ calls[c].p.amt = calls[c].bal0 =>
            /\ Succeeded(c) /\ calls[c].resp.result = 0
            /\ calls[c].wr = <<Wrote("bal", calls[c].p.acc, calls[c].bal0, 0, "")>>
       /\ calls[c].p.amt > calls[c].bal0 =>
            /\ Failed(c, "insufficient funds")
            /\ calls[c].wr = <<>>

\* C20 witness: a withdraw of the whole balance has returned ok and the
\* account holds 0.
C20_Witness ==
  \E c \in DOMAIN calls :
    /\ calls[c].act = "withdraw" /\ Succeeded(c) /\ Isolated(c)
    /\ calls[c].p.amt = calls[c].bal0 /\ calls[c].bal0 = PreloadBalance
    /\ phase[calls[c].to] = "listening"
    /\ accounts[calls[c].to][calls[c].p.acc] = 0

Aborts == {"abort_withdraw", "abort_deposit"}
Prepares == {"prepare_withdraw", "prepare_deposit"}
AbortOf(act) == IF act = "prepare_withdraw" THEN "abort_withdraw" ELSE "abort_deposit"

\* w is the withdraw of the amount that d deposited on the same account,
\* served after d with no request of the branch between or beside them
RoundTrip(d, w) ==
  /\ calls[d].act = "deposit" /\ calls[w].act = "withdraw"
  /\ calls[d].to = calls[w].to /\ calls[d].p = calls[w].p
  /\ calls[d].p.amt \notin {NaN, BadAmt} /\ calls[d].p.amt >= 0
  /\ calls[d].bal0 # Null
  /\ d \in calls[w].after /\ Replied_(d) /\ Replied_(w)
  /\ \A e \in DOMAIN calls \ {d, w} :
       calls[e].to = calls[d].to =>
         e \in calls[d].after \/ w \in calls[e].after \/ calls[e].st \in {"sent", "lost"}
Restores(d, w) ==
  /\ Succeeded(d) /\ Succeeded(w)
  /\ calls[w].resp.result = calls[d].bal0
  /\ calls[w].wr =
       <<Wrote("bal", calls[w].p.acc, calls[d].resp.result, calls[d].bal0, "")>>

\* C21 as stated: for an existing account and any non-negative integer x,
\* deposit(a, x) followed at once by withdraw(a, x) both return ok and the
\* withdraw writes the balance the account held before the deposit.
C21_DepositThenWithdrawRestores ==
  \A d, w \in DOMAIN calls : RoundTrip(d, w) => Restores(d, w)

\* C21: the same for an x whose sum with the balance is a double (below 2^53
\* every integer is one).
C21_ExactDepositThenWithdrawRestores ==
  \A d, w \in DOMAIN calls :
    RoundTrip(d, w) /\ calls[d].bal0 + calls[d].p.amt < Two60 => Restores(d, w)

\* C21 witness: 300 deposited and withdrawn again, the account holds what it
\* held before.
C21_Witness ==
  \E d, w \in DOMAIN calls :
    /\ RoundTrip(d, w) /\ calls[d].p.amt = 300 /\ Succeeded(w)
    /\ calls[d].bal0 = PreloadBalance
    /\ phase[calls[d].to] = "listening"
    /\ accounts[calls[d].to][calls[d].p.acc] = PreloadBalance

\* call c gets its response in this step
Answered(c) == calls[c].st # "replied" /\ calls'[c].st = "replied"
Numeric(x) == x \notin {NaN, BadAmt, Null}

\* C22: a prepare_withdraw with a txid, an account number and a number as
\* amount, served on its own, returns ok exactly when the account exists and
\* holds at least the amount.  The step that answers ok has stored the
\* withdraw row (txid, acc, amt), has added no other row and has changed no
\* balance; a prepare_withdraw that answers anything else has written nothing.
C22_PrepareWithdrawVotes ==
  /\ [](\A c \in DOMAIN calls :
          calls[c].act = "prepare_withdraw" /\ Replied_(c) =>
            /\ Succeeded(c) =>
                 calls[c].wr = <<Wrote("prepare", calls[c].p.acc, 0, 0, calls[c].p.txid)>>
            /\ ~Succeeded(c) => calls[c].wr = <<>>
            /\ /\ Isolated(c) /\ Numeric(calls[c].p.amt)
               /\ calls[c].p.txid # "" /\ calls[c].p.acc # ""
               => (Succeeded(c) <=>
                     calls[c].bal0 # Null /\ calls[c].bal0 >= calls[c].p.amt))
  /\ [][\A c \in DOMAIN calls :
          calls[c].act = "prepare_withdraw" /\ Answered(c) =>
            LET b == calls[c].to
                row == [txid |-> calls[c].p.txid, acc |-> calls[c].p.acc,
                        amt |-> calls[c].p.amt, type |-> "withdraw"]
            IN /\ accounts' = accounts
               /\ IF calls'[c].resp.status = "ok"
                  THEN row \in pending'[b] /\ pending'[b] \ pending[b] \subseteq {row}
                  ELSE pending' = pending]_vars

\* C22 witness: one prepare_withdraw has been refused for an amount above the
\* balance and written nothing, another has voted yes, its row is stored and
\* the balance is the one before.
C22_Witness ==
  \E c, d \in DOMAIN calls :
    /\ calls[c].act = "prepare_withdraw" /\ Succeeded(c) /\ Isolated(c)
    /\ calls[d].act = "prepare_withdraw" /\ Isolated(d)
    /\ Failed(d, "insufficient funds or account not found")
    /\ calls[d].p.amt > calls[d].bal0 /\ calls[d].bal0 # Null /\ calls[d].wr = <<>>
    /\ [txid |-> calls[c].p.txid, acc |-> calls[c].p.acc, amt |-> calls[c].p.amt,
        type |-> "withdraw"] \in pending[calls[c].to]
    /\ accounts[calls[c].to][calls[c].p.acc] = calls[c].bal0

\* the withdraw rows of its txid that commit_withdraw c found when it started
WithdrawRows(c) ==
  {r \in calls[c].pre.rows : r.txid = calls[c].p.txid /\ r.type = "withdraw"}

\* C23: a commit_withdraw with a txid, served on its own: if it found no
\* withdraw row of the txid it returns 'no such tx' and writes nothing; if it
\* found one and the account held at least its amount, it returns ok and has
\* debited the account by exactly the amount and deleted the row; if the
\* account held less, it returns 'insufficient funds at commit' and has
\* deleted the row and written no balance.  The step that answers ok or
\* 'insufficient funds at commit' leaves no row of the txid.
C23_CommitWithdrawCases ==
  /\ [](\A c \in DOMAIN calls :
          /\ calls[c].act = "commit_withdraw" /\ calls[c].p.txid # ""
          /\ Replied_(c) /\ Isolated(c)
          => /\ WithdrawRows(c) = {} => Failed(c, "no such tx") /\ calls[c].wr = <<>>
             /\ \A r \in WithdrawRows(c) :
                  LET bal == calls[c].pre.bal[r.acc]
                      del == Wrote("delete", r.acc, 0, 0, r.txid)
                  IN r.acc \in DOMAIN calls[c].pre.bal /\ Numeric(bal) /\ Numeric(r.amt) =>
                       IF bal >= r.amt
                       THEN /\ Succeeded(c)
                            /\ calls[c].wr =
                                 <<Wrote("bal", r.acc, bal, bal - r.amt, r.txid), del>>
                       ELSE /\ Failed(c, "insufficient funds at commit")
                            /\ calls[c].wr = <<del>>)
  /\ [][\A c \in DOMAIN calls :
          /\ calls[c].act = "commit_withdraw" /\ Answered(c)
          /\ \/ calls'[c].resp.status = "ok"
             \/ calls'[c].resp = Err("insufficient funds at commit")
          => \A r \in pending'[calls[c].to] : r.txid # calls[c].p.txid]_vars

\* C23 witness: of two transactions prepared against the same funds, the
\* commit of one has debited the account and the commit of the other has
\* returned 'insufficient funds at commit'; no row is left.
C23_Witness ==
  \E c, d \in DOMAIN calls :
    /\ calls[c].act = "commit_withdraw" /\ Succeeded(c) /\ Isolated(c)
    /\ WithdrawRows(c) # {}
    /\ calls[d].act = "commit_withdraw" /\ Isolated(d) /\ WithdrawRows(d) # {}
    /\ Failed(d, "insufficient funds at commit")
    /\ pending[calls[c].to] = {}

Commits == {"commit_withdraw", "commit_deposit"}
PrepareOf(act) == IF act = "commit_withdraw" THEN "prepare_withdraw" ELSE "prepare_deposit"

\* the prepares of txid at branch b that stored a row, and the balance writes
\* of the commits `act' of txid at b
StoredPrepares(b, act, txid) ==
  {c \in DOMAIN calls :
     /\ calls[c].to = b /\ calls[c].act = PrepareOf(act) /\ calls[c].p.txid = txid
     /\ calls[c].wr # <<>>}
CommitWrites(b, act, txid) ==
  {ci \in (DOMAIN calls) \X (1..2) :
     /\ calls[ci[1]].to = b /\ calls[ci[1]].act = act /\ calls[ci[1]].p.txid = txid
     /\ ci[2] <= Len(BalWrites(calls[ci[1]].wr))}

\* commit c completed: it answered ok or removed the row with an error
Completed(c) ==
  \/ Succeeded(c)
  \/ Failed(c, "insufficient funds at commit")
  \/ Failed(c, "account not found")

\* d is commit c once more: c completed before d was accepted, and the txid
\* was not prepared again since c was accepted
RepeatedCommit(c, d) ==
  /\ c \in calls[d].after /\ Completed(c)
  /\ calls[c].act \in Commits /\ calls[d].act = calls[c].act
  /\ calls[d].to = calls[c].to /\ calls[d].p.txid = calls[c].p.txid
  /\ \A e \in DOMAIN calls :
       /\ calls[e].to = calls[c].to /\ calls[e].act \in Prepares
       /\ calls[e].p.txid = calls[c].p.txid
       => e \in calls[c].after \/ calls[e].st \in {"sent", "lost"}

\* C31: the commits of a txid write a balance at most once for each prepare
\* of the txid that stored a row; a commit repeated after the commit has
\* completed returns 'no such tx' and writes neither a balance nor a row.
C31_CommitAppliedOncePerPrepare ==
  /\ \A b \in Branch : \A act \in Commits : \A txid \in {"t1", "t2"} :
       Cardinality(CommitWrites(b, act, txid)) <= Cardinality(StoredPrepares(b, act, txid))
  /\ \A c, d \in DOMAIN calls :
       RepeatedCommit(c, d) /\ Replied_(d) => Failed(d, "no such tx") /\ calls[d].wr = <<>>

\* every request of branch b is an immediate withdraw, a local transfer or a
\* prepare or commit of 2PC, and no amount is negative
Debiting ==
  {"withdraw", "local_transfer", "prepare_withdraw", "commit_withdraw",
   "prepare_deposit", "commit_deposit"}
DebitsOnly(b) ==
  \A c \in DOMAIN calls :
    calls[c].to = b =>
      calls[c].act \in Debiting /\ Numeric(calls[c].p.amt) /\ calls[c].p.amt >= 0

\* C24: while the requests of a branch are immediate withdraws, local
\* transfers and 2PC prepares and commits of non-negative amounts, no balance
\* of the branch is below zero, no commit_withdraw writes a balance below
\* zero, and a commit_withdraw that returns 'insufficient funds at commit' has
\* written no balance.
C24_NoOverdraftByInterleaving ==
  \A b \in Branch :
    DebitsOnly(b) =>
      /\ \A a \in DOMAIN accounts[b] : Numeric(accounts[b][a]) /\ accounts[b][a] >= 0
      /\ \A c \in DOMAIN calls :
           calls[c].to = b /\ calls[c].act = "commit_withdraw" =>
             /\ \A i \in DOMAIN calls[c].wr :
                  calls[c].wr[i].kind = "bal" => calls[c].wr[i].new >= 0
             /\ Failed(c, "insufficient funds at commit") => BalWrites(calls[c].wr) = <<>>

\* C24 witness: a local transfer took 300 out of the account after the yes
\* vote for 1000, and the commit has failed with 'insufficient funds at
\* commit' and left the 700.
C24_Witness ==
  \E c, d, e \in DOMAIN calls :
    /\ DebitsOnly(calls[c].to)
    /\ calls[d].act = "prepare_withdraw" /\ Succeeded(d)
    /\ calls[e].act = "local_transfer" /\ Succeeded(e) /\ d \in calls[e].after
    /\ calls[c].act = "commit_withdraw" /\ e \in calls[c].after
    /\ Failed(c, "insufficient funds at commit")
    /\ accounts[calls[c].to][calls[d].p.acc] = PreloadBalance - 300

AbortedType(act) == IF act = "abort_withdraw" THEN "withdraw" ELSE "deposit"

\* C27: a step of an abort_withdraw or abort_deposit worker adds no
\* pending_tx row, removes none but the row of its txid and of its type, and
\* changes no account; an abort answered on its own that found only a row of
\* the other type under its txid has written nothing, and an abort writes no
\* balance.
C27_AbortRemovesOnlyItsType ==
  /\ [](\A c \in DOMAIN calls :
          calls[c].act \in Aborts =>
            /\ BalWrites(calls[c].wr) = <<>>
            /\ /\ Replied_(c) /\ Isolated(c)
               /\ \A r \in calls[c].pre.rows : r.type # AbortedType(calls[c].act)
               => calls[c].wr = <<>>)
  /\ [][\A t \in Tid :
          /\ Running(t) /\ th[t].fn \in Aborts /\ th'[t] # th[t]
          /\ \A u \in Tid \ {t} : th'[u] = th[u]
          /\ phase'[th[t].br] = "listening"
          => LET b == th[t].br
             IN /\ accounts' = accounts
                /\ pending'[b] \subseteq pending[b]
                /\ \A r \in pending[b] \ pending'[b] :
                     r.txid = th[t].p.txid /\ r.type = AbortedType(th[t].fn)]_vars

\* C27 witness: an abort_withdraw has returned ok for a txid under which a
\* deposit row was stored, and the row is still there.
C27_Witness ==
  \E c \in DOMAIN calls :
    /\ calls[c].act = "abort_withdraw" /\ Succeeded(c) /\ Isolated(c)
    /\ calls[c].pre.rows # {}
    /\ calls[c].pre.rows \subseteq pending[calls[c].to]
    /\ \A r \in calls[c].pre.rows : r.type = "deposit"

\* d and c are the same abort, served one after the other with no request
\* of the branch between or beside them
Repeated(d, c) ==
  /\ d \in calls[c].after /\ Replied_(d) /\ Replied_(c)
  /\ calls[d].act = calls[c].act /\ calls[d].p = calls[c].p /\ calls[d].to = calls[c].to
  /\ \A e \in DOMAIN calls \ {c, d} :
       calls[e].to = calls[c].to =>
         e \in calls[d].after \/ c \in calls[e].after \/ calls[e].st \in {"sent", "lost"}

\* C15: an abort_withdraw or abort_deposit with a non-empty txid, served on
\* its own, returns ok whether or not a row of the txid exists, and writes
\* nothing but the delete of that row; served a second time right after, it
\* writes nothing.
C15_AbortIdempotent ==
  \A c \in DOMAIN calls :
    calls[c].act \in Aborts /\ calls[c].p.txid # "" /\ Replied_(c) /\ Isolated(c)
    => /\ Succeeded(c)
       /\ Len(calls[c].wr) <= 1
       /\ \A i \in DOMAIN calls[c].wr :
            calls[c].wr[i].kind = "delete" /\ calls[c].wr[i].txid = calls[c].p.txid
       /\ \A d \in DOMAIN calls : Repeated(d, c) => calls[c].wr = <<>>

\* C15 witness: an abort has deleted the row of its txid and the same abort,
\* repeated, has returned ok and written nothing.
C15_Witness ==
  \E c, d \in DOMAIN calls :
    /\ Repeated(d, c) /\ Isolated(c) /\ Isolated(d)
    /\ calls[c].act = "abort_withdraw"
    /\ Succeeded(d) /\ calls[d].wr # <<>>
    /\ Succeeded(c) /\ calls[c].wr = <<>>

\* every request of branch b is answered and is a prepare or an abort, and
\* every prepare was followed by the abort of its type and txid
Cycles(b) ==
  \A d \in DOMAIN calls :
    calls[d].to = b =>
      /\ Replied_(d)
      /\ calls[d].act \in Prepares \cup Aborts
      /\ calls[d].act \in Prepares =>
           \E c \in DOMAIN calls :
             /\ calls[c].to = b /\ d \in calls[c].after
             /\ calls[c].act = AbortOf(calls[d].act)
             /\ calls[c].p.txid = calls[d].p.txid

\* C16: after any run of prepare_withdraw/abort_withdraw and
\* prepare_deposit/abort_deposit cycles the balances are those of the start
\* and pending_tx is empty.
C16_PrepareAbortCyclesLeaveNothing ==
  \A b \in Branch :
    phase[b] = "listening" /\ Cycles(b) => pending[b] = {} /\ accounts[b] = Preloaded

\* C16 witness: two cycles of one txid are over, each abort having deleted
\* the row its prepare had stored.
C16_Witness ==
  /\ Cycles("A")
  /\ \E c, d \in DOMAIN calls :
       /\ c # d /\ calls[c].act = "abort_withdraw" /\ calls[d].act = "abort_withdraw"
       /\ calls[c].wr # <<>> /\ calls[d].wr # <<>>

\* worker t is in replicate_to_replicas
InRepl(t) ==
  /\ Running(t)
  /\ \/ th[t].pc \in {"repl", "repl_got"}
     \/ th[t].pc = "rpc" /\ th[t].ret = "repl_got"

\* C18: a worker that has reached replicate_to_replicas holds the response
\* 'ok' of its handler; whatever its replicate calls come to, its steps write
\* neither accounts nor pending_tx of its branch and keep that response, and
\* its last step returns it.
C18_ReplicationOutcomeIgnored ==
  /\ [](\A t \in Tid : InRepl(t) =>
          th[t].fn \in Replicating /\ th[t].out.status = "ok")
  /\ [][\A t \in Tid :
          /\ InRepl(t) /\ th'[t] # th[t]
          /\ \A u \in Tid \ {t} : th'[u] = th[u]
          /\ phase'[th[t].br] = "listening"
          => /\ accounts'[th[t].br] = accounts[th[t].br]
             /\ pending'[th[t].br] = pending[th[t].br]
             /\ \/ InRepl(t)' /\ th'[t].out = th[t].out
                \/ /\ th'[t] = FreeThread
                   /\ calls'[th[t].cid].st = "replied"
                   /\ calls'[th[t].cid].resp = th[t].out]_vars

\* C18 witness: a commit_withdraw has returned ok although a replicate call
\* of its worker got no answer or an error.
C18_Witness ==
  \E c \in DOMAIN calls :
    /\ calls[c].act = "commit_withdraw" /\ Succeeded(c)
    /\ \E d \in Sent(c, "replicate") : Unanswered(d)

\* the replicate calls that the worker of call c has sent to replica b with
\* message m
Attempts(c, b, m) ==
  {d \in Sent(c, "replicate") : calls[d].to = b /\ calls[d].p = m}

\* C28: a replicate create_account for an account the replica holds writes
\* nothing, so the second of two equal messages leaves the state of the first;
\* a replicate deposit or withdraw for an account the replica holds, served on
\* its own, writes the balance plus or minus the amount every time it is
\* applied.  The primary sends a message to a replica at most REPL_RETRY
\* times, and sends it again when an attempt before the last has failed.
C28_ReplicaApply ==
  /\ [](\A d \in DOMAIN calls :
          calls[d].act = "replicate" /\ Replied_(d) =>
            /\ calls[d].p.ract = "create_account" =>
                 /\ calls[d].bal0 # Null => calls[d].wr = <<>>
                 /\ \A e \in calls[d].after :
                      calls[e].act = "replicate" /\ calls[e].p = calls[d].p /\ Succeeded(e)
                      => calls[d].wr = <<>>
            /\ /\ calls[d].p.ract \in {"deposit", "withdraw"} /\ Isolated(d)
               /\ calls[d].bal0 # Null /\ Numeric(calls[d].p.amt)
               => calls[d].wr =
                    <<Wrote("bal", calls[d].p.acc, calls[d].bal0,
                            IF calls[d].p.ract = "deposit"
                            THEN calls[d].bal0 + calls[d].p.amt
                            ELSE calls[d].bal0 - calls[d].p.amt, "")>>)
  /\ [](\A c, d \in DOMAIN calls :
          calls[d].act = "replicate" /\ calls[d].of = c =>
            Cardinality(Attempts(c, calls[d].to, calls[d].p)) <= REPL_RETRY)
  /\ [][\A t \in Tid :
          /\ Running(t) /\ th[t].pc = "repl_got"
          /\ th[t].res.status # "ok" /\ th[t].rk + 1 < REPL_RETRY
          /\ th'[t] # th[t] /\ phase'[th[t].br] = "listening"
          => /\ th'[t].pc = "repl" /\ th'[t].rq = th[t].rq /\ th'[t].ri = th[t].ri
             /\ th'[t].rk = th[t].rk + 1]_vars

\* C28 witness: the replica has applied the deposit of 300 twice, for two
\* attempts of the primary's one deposit, and holds 300 more than the primary.
C28_Witness ==
  \E c, d, e \in DOMAIN calls :
    /\ calls[c].act = "deposit" /\ Succeeded(c) /\ d # e
    /\ {d, e} \subseteq Attempts(c, "R", calls[d].p)
    /\ calls[d].wr # <<>> /\ calls[e].wr # <<>>
    /\ accounts[calls[c].to][calls[c].p.acc] = PreloadBalance + 300
    /\ accounts["R"][calls[c].p.acc] = PreloadBalance + 600

(***************************************************************************)
(* Properties of one branch (Spec).                                        *)
(***************************************************************************)
\* no request is in flight: every request has been answered and no worker runs
Quiet ==
  /\ \A c \in DOMAIN calls : Replied_(c)
  /\ \A t \in Tid : th[t].st = "free"

\* every replicate message was delivered and applied once: no process died,
\* no call timed out, and each replicate call was answered ok, so none was
\* sent again
AppliedOnce ==
  /\ faults = 0
  /\ \A c \in DOMAIN calls : calls[c].act = "replicate" => Succeeded(c)

\* C33: when every replicate message was delivered and applied exactly once
\* and no request is in flight, the replica R holds the accounts and the
\* balances of the authoritative branch A.
C33_ReplicaEqualsAuthority ==
  Quiet /\ AppliedOnce => accounts["R"] = accounts["A"]

\* the replicate messages the writes of the requests from c on may cause: for
\* each write of a request that is no replicate message, REPL_RETRY for each
\* replica of its branch
RECURSIVE Allowance(_)
Allowance(c) ==
  IF c > Len(calls) THEN 0
  ELSE (IF calls[c].act # "replicate"
        THEN Len(calls[c].wr) * Len(cfg[calls[c].to].replicas) * REPL_RETRY
        ELSE 0) + Allowance(c + 1)

ReplicateCalls == {d \in DOMAIN calls : calls[d].act = "replicate"}

\* C34: a worker that serves a replicate message sends no request; the
\* replicate messages for one write of a request number at most REPL_RETRY
\* for each replica of its branch, and all the replicate messages in the
\* system number at most that many for each write of a request that is no
\* replicate message.
C34_ReplicationDoesNotCascade ==
  /\ \A d \in DOMAIN calls :
       calls[d].of # 0 => calls[calls[d].of].act # "replicate"
  /\ \A d \in ReplicateCalls :
       Cardinality({e \in Sent(calls[d].of, "replicate") : calls[e].p = calls[d].p})
         <= Len(cfg[calls[calls[d].of].to].replicas) * REPL_RETRY
  /\ Cardinality(ReplicateCalls) <= Allowance(1)

\* C34 witness: A and R list each other as replica; a deposit at A was sent to
\* R REPL_RETRY times, R has applied it and answered ok, and with R's worker
\* gone no request is in flight.
C34_Witness ==
  /\ Quiet
  /\ \E d \in ReplicateCalls :
       /\ Succeeded(d) /\ calls[d].wr # <<>>
       /\ cfg[calls[d].to].replicas = <<calls[calls[d].of].to>>
       /\ cfg[calls[calls[d].of].to].replicas = <<calls[d].to>>
       /\ Cardinality(Attempts(calls[d].of, calls[d].to, calls[d].p)) = REPL_RETRY

\* C4: a local_transfer that returns ok decreases the source balance by
\* amount and increases the destination balance by amount in one step, so
\* what it wrote leaves the sum of the balances of the branch unchanged.
C4_LocalTransferConservesSum ==
  \A c \in DOMAIN calls :
    calls[c].act = "local_transfer" /\ Succeeded(c) => Net(calls[c].wr) = 0

\* C5: the debit and the credit of a local_transfer are one atomic unit: no
\* other statement runs on the store between them (it would see the source
\* debited and the destination not yet credited), and a process that dies
\* has written both or none.
C5_LocalTransferAtomic ==
  /\ \A t \in Tid : At(t, "local_transfer", "lt3") => cur[th[t].br].by = t
  /\ \A c \in DOMAIN calls :
       calls[c].act = "local_transfer" /\ calls[c].st = "died"
         => Len(calls[c].wr) \in {0, 2}

\* C6: a starting branch has deleted every pending_tx row when it begins to
\* accept connections, and no step of a branch that is not yet listening
\* changes a balance.
C6_RecoveryPresumesAbort ==
  /\ [](\A b \in Branch : phase[b] = "ready" => pending[b] = {})
  /\ [][\A b \in Branch : phase[b] # "listening" => accounts'[b] = accounts[b]]_vars

\* C6 witness: the branch has restarted after a crash that found a prepared
\* withdrawal whose commit had not run, and the balance is the one before.
C6_Witness ==
  /\ phase["A"] = "ready" /\ faults > 0
  /\ \E c \in DOMAIN calls :
       /\ calls[c].act = "prepare_withdraw" /\ Succeeded(c)
       /\ calls[c].p.txid = "t1"
  /\ \A c \in DOMAIN calls : calls[c].act = "commit_withdraw" => calls[c].st = "sent"
  /\ accounts["A"]["1001"] = PreloadBalance

\* the handlers that write, and the part of them between lookup and write
Mutating ==
  {"create_account", "deposit", "withdraw", "local_transfer", "prepare_withdraw",
   "commit_withdraw", "abort_withdraw", "prepare_deposit", "commit_deposit",
   "abort_deposit", "replicate"}
Inside(t) == Running(t) /\ th[t].fn \in Mutating /\ th[t].pc \in DbPc

\* C7: every handler that writes holds the mutex of the branch for its whole
\* lookup-check-write sequence, so two workers of one branch are never inside
\* such sequences at the same time.
C7_MutationsSerialised ==
  \A t, u \in Tid :
    t # u /\ Inside(t) /\ Inside(u) => th[t].br # th[u].br

Readers == {"balance", "list_accounts"}
FetchPc == {"ga_fetch", "la", "cw_fetch", "cd_fetch"}

\* C8: balance and list_accounts take no lock and use the shared cursor, yet
\* a read never observes the result of a writing handler's query, and a
\* worker that holds the lock and is about to fetch never finds the cursor
\* taken by a reader.
C8_ReadersDoNotInterfere ==
  \A t, u \in Tid :
    /\ t # u /\ Running(t) /\ Running(u) /\ th[t].br = th[u].br
    /\ th[t].pc \in FetchPc /\ cur[th[t].br].by = u
    => /\ ~(th[t].fn \in Readers /\ th[u].fn \in Mutating)
       /\ ~(Holds(t) /\ th[u].fn \in Readers)

Negative(x) == x \notin {NaN, BadAmt, Null} /\ x < 0
Transfers == {"deposit", "withdraw", "local_transfer", "inter_branch_transfer"}

\* C9: deposit, withdraw, local_transfer and inter_branch_transfer answer a
\* negative amount or NaN with the error 'invalid amount', and have written
\* nothing (a request whose worker died of an exception aside).
C9_NegativeAndNaNRejected ==
  \A c \in DOMAIN calls :
    /\ calls[c].act \in Transfers
    /\ Negative(calls[c].p.amt) \/ calls[c].p.amt = NaN
    /\ Replied_(c) /\ calls[c].resp.error # "exception"
    => Failed(c, "invalid amount") /\ calls[c].wr = <<>>

DomainErrors ==
  {"missing account_no", "missing account numbers", "missing txid",
   "missing txid/account_no", "missing parameters", "invalid amount",
   "account not found", "source account not found",
   "destination account not found", "account exists", "insufficient funds",
   "insufficient funds at commit", "insufficient funds or account not found",
   "no such tx"}
DomainFailure(c) ==
  Replied_(c) /\ calls[c].resp.status = "error" /\ calls[c].resp.error \in DomainErrors

\* C10 as stated: a handler that returns a validation or domain error has
\* left accounts and pending_tx as they were.
C10_ErrorsChangeNothing ==
  \A c \in DOMAIN calls : DomainFailure(c) => calls[c].wr = <<>>

\* C10: a handler that returns a validation or domain error has written no
\* balance and no new row; commit_withdraw and commit_deposit that fail with
\* 'account not found' or 'insufficient funds at commit' have deleted the
\* pending row of their txid, and that is all any failing handler writes.
C10_ErrorsChangeNoBalance ==
  \A c \in DOMAIN calls : DomainFailure(c) =>
    \/ calls[c].wr = <<>>
    \/ /\ calls[c].act \in {"commit_withdraw", "commit_deposit"}
       /\ calls[c].resp.error \in {"account not found", "insufficient funds at commit"}
       /\ Len(calls[c].wr) = 1
       /\ calls[c].wr[1].kind = "delete"
       /\ calls[c].wr[1].txid = calls[c].p.txid

\* C10 witness: a commit_withdraw whose account no longer covers the amount
\* has failed and deleted its row.
C10_Witness ==
  \E c \in DOMAIN calls :
    /\ calls[c].act = "commit_withdraw"
    /\ Failed(c, "insufficient funds at commit")
    /\ Len(calls[c].wr) = 1
    /\ \A r \in pending["A"] : r.txid # calls[c].p.txid

====
